---- MODULE Spec2Model ----
(***************************************************************************)
(* Model of the response cache and the barcode resolution of the product   *)
(* analyzer pages (pages/trial2.py, pages/trial.py, pages/barcodescanner.py)*)
(*                                                                         *)
(* Python values are tagged records, strings used as cache keys are        *)
(* sequences of tokens (so that concatenation is \o), a cache file holds   *)
(* JSON text, and json.dump / json.load are modelled as the conversion     *)
(* between the two representations.                                        *)
(***************************************************************************)
EXTENDS Integers, Sequences, FiniteSets, TLC

\* ------------------------------------------------------------------------
\* Python values
\* ------------------------------------------------------------------------
None == [t |-> "none"]
Str(s) == [t |-> "str", s |-> s]
Num(n) == [t |-> "num", n |-> n]
List(q) == [t |-> "list", items |-> q]
Dict(f) == [t |-> "dict", d |-> f]
EmptyMap == <<>>

\* bool(v): the test made by "if cached:", "if not pname:", "if pname:"
Truthy(v) ==
    CASE v.t = "none" -> FALSE
      [] v.t = "str"  -> v.s # ""
      [] v.t = "num"  -> v.n # 0
      [] v.t = "list" -> Len(v.items) > 0
      [] v.t = "dict" -> DOMAIN v.d # {}

\* d.get(k, default) on a dict d
PyGet(d, k, default) == IF k \in DOMAIN d.d THEN d.d[k] ELSE default

\* ------------------------------------------------------------------------
\* JSON text: json.dump writes a document, json.load reads it back
\* ------------------------------------------------------------------------
RECURSIVE JsonDump(_)
JsonDump(v) ==
    CASE v.t = "none" -> [j |-> "null"]
      [] v.t = "str"  -> [j |-> "string", chars |-> v.s]
      [] v.t = "num"  -> [j |-> "number", digits |-> v.n]
      [] v.t = "list" -> [j |-> "array",
                          elems |-> [i \in DOMAIN v.items |-> JsonDump(v.items[i])]]
      [] v.t = "dict" -> [j |-> "object",
                          members |-> [k \in DOMAIN v.d |-> JsonDump(v.d[k])]]

RECURSIVE JsonLoad(_)
JsonLoad(doc) ==
    CASE doc.j = "null"   -> None
      [] doc.j = "string" -> Str(doc.chars)
      [] doc.j = "number" -> Num(doc.digits)
      [] doc.j = "array"  -> List([i \in DOMAIN doc.elems |-> JsonLoad(doc.elems[i])])
      [] doc.j = "object" -> Dict([k \in DOMAIN doc.members |-> JsonLoad(doc.members[k])])

\* ------------------------------------------------------------------------
\* The cache directory: a file is absent, unreadable, or holds text that is
\* either a JSON document or not JSON at all (truncated, garbage)
\* ------------------------------------------------------------------------
Absent == [k |-> "absent"]
Unreadable == [k |-> "unreadable"]
NotJson == [k |-> "text", json |-> FALSE]
JsonFile(doc) == [k |-> "text", json |-> TRUE, doc |-> doc]

\* hashlib.md5(...).hexdigest(): a digest, distinct for the distinct keys used
Md5(key) == <<"md5", key>>

CheckerDir == "~/.product_checker_cache"
AnalyzerDir == "~/.product_analyzer_cache"

\* time-to-live of the three cache implementations
ProductTTL == 86400
AnalysisTTL == 604800
ScannerTTL == 86400

\* DataFetcher._cache_path(key, src)
DataFetcherPath(key, src) ==
    [dir |-> CheckerDir, name |-> <<src, "_", Md5(key), ".json">>]

\* AIAnalyzer._cache_path(atype, pname, bname)
AIAnalyzerPath(atype, pname, bname) ==
    [dir |-> CheckerDir, name |-> <<atype, "_", Md5(pname \o <<"_">> \o bname), ".json">>]

\* OpenFoodFactsFetcher._get_cache_key(barcode) and the file name built from it
ScannerPath(barcode) ==
    [dir |-> AnalyzerDir, name |-> <<Md5(<<"off_">> \o barcode), ".json">>]

\* an age test that never expires an entry
FreshLE_never(age, max_age) == TRUE
\* an age test that expires an entry one second early
FreshLE_strict(age, max_age) == age < max_age

\* the age test of DataFetcher._load_cache / AIAnalyzer._load_cache
FreshLE(age, max_age) == age <= max_age

\* the age test of OpenFoodFactsFetcher._load_cache
FreshLT(age, max_age) == age < max_age

\* the body shared by the three _load_cache methods: dataKey / timeKey are
\* the entry's field names, strict tells which age test is made. Every
\* exception raised between open() and the return is swallowed and None is
\* returned.
LoadEntry(f, t, max_age, dataKey, timeKey, strict) ==
    IF f = Absent THEN None                        \* os.path.exists(p) is false
    ELSE IF f.k # "text" THEN None                 \* open() raises
    ELSE IF ~f.json THEN None                      \* json.load raises
    ELSE LET c == JsonLoad(f.doc) IN
         IF c.t # "dict" THEN None                 \* c.get raises AttributeError
         ELSE LET ct == PyGet(c, timeKey, Num(0)) IN
              IF ct.t # "num" THEN None            \* the subtraction raises TypeError
              ELSE IF (IF strict THEN FreshLT(t - ct.n, max_age)
                                 ELSE FreshLE(t - ct.n, max_age))
                   THEN PyGet(c, dataKey, None)
              ELSE None

\* a _save_cache that forgets the time stamp
SaveEntry_unstamped(f, t, writable, dataKey, timeKey, data) ==
    IF writable
    THEN JsonFile(JsonDump(Dict(dataKey :> data)))
    ELSE f

\* the body shared by the three _save_cache methods: open(p, 'w') and
\* json.dump; a failure to open the file is swallowed
SaveEntry(f, t, writable, dataKey, timeKey, data) ==
    IF writable
    THEN JsonFile(JsonDump(Dict(dataKey :> data @@ timeKey :> Num(t))))
    ELSE f

\* DataFetcher._load_cache(key, src, max_age=86400) on the file f at time t
DataFetcherLoad(f, t) == LoadEntry(f, t, ProductTTL, "data", "cache_time", FALSE)
\* DataFetcher._save_cache
DataFetcherSave(f, t, writable, data) ==
    SaveEntry(f, t, writable, "data", "cache_time", data)

\* AIAnalyzer._load_cache(atype, pname, bname, max_age=604800)
AIAnalyzerLoad(f, t) == LoadEntry(f, t, AnalysisTTL, "data", "cache_time", FALSE)
\* AIAnalyzer._save_cache
AIAnalyzerSave(f, t, writable, data) ==
    SaveEntry(f, t, writable, "data", "cache_time", data)

\* OpenFoodFactsFetcher._load_cache(barcode)
ScannerLoad(f, t) == LoadEntry(f, t, ScannerTTL, "product", "timestamp", TRUE)
\* OpenFoodFactsFetcher._save_cache
ScannerSave(f, t, writable, product) ==
    SaveEntry(f, t, writable, "product", "timestamp", product)

\* ------------------------------------------------------------------------
\* State
\* ------------------------------------------------------------------------
VARIABLES
    files,        \* the cache directories: path -> file
    now,          \* time.time(), in seconds
    ticks,        \* how many times the clock has been advanced
    dirWritable,  \* whether open(p, 'w') in the cache directory succeeds
    page,         \* the page that runs: "trial2" or "trial"
    usdaKey,      \* whether USDA_API_KEY is configured
    client,       \* the cache implementation exercised by the cache steps
    cacheOp,      \* the last cache call made and what it returned
    seeded,       \* which reference files of RegulationDatabase exist
    pc,           \* where the running process_barcode call is blocked
    run,          \* the locals of the running process_barcode call
    outcome,      \* how the last process_barcode call ended, with its call counts
    product_data, \* st.session_state.product_data
    chat_history, \* st.session_state.chat_history
    scan_history, \* st.session_state.scan_history
    primary,      \* per barcode: the last record fetched from Open Food Facts
    runs,         \* how many resolutions have been started
    memo,         \* st.cache_data of OpenFoodFactsFetcher.fetch_product
    memoN,        \* st.cache_data of USDAFetcher.fetch_nutrition
    session_product,  \* st.session_state.product of barcodescanner.py
    session_history,  \* st.session_state.history of barcodescanner.py
    scan,         \* how the last scan of barcodescanner.py went
    memoS,        \* st.cache_data of OpenFoodFactsFetcher.search_by_name
    last_search,  \* how the last search by name went
    searched,     \* per query: the last result a search received from upstream
    analysis,     \* how the last generative analysis or chat call went
    writer,       \* per analysis cache file: the request that last wrote it
    puts,         \* per session: the _save_cache call in progress, if any
    lastPut,      \* per cache file: the _save_cache call that returned last
    pending_barcode,\* st.session_state.pending_barcode
    barcode_param,\* st.query_params['barcode'], set by the scanner component
    scan_log,     \* the barcodes process_barcode was called with by the scanner tab, in order
    skipped,      \* whether a script run has left the barcode of the query parameter alone
    analysis_data,\* st.session_state.analysis_data of finalanalyzerbot.py
    analysis_results,\* st.session_state.analysis_results
    warnings,     \* st.session_state.warnings
    trends,       \* st.session_state.trends
    shot,         \* the latest image analysis: its number and the response of the model
    parsed_log    \* the numbers of the analyses whose response was parsed, in order

envVars == <<dirWritable, page, usdaKey>>
cacheVars == <<client, cacheOp>>
sessVars == <<product_data, chat_history, scan_history>>
resVars == <<seeded, pc, run, outcome, sessVars, primary, runs>>
scanVars == <<memo, memoN, session_product, session_history, scan>>
searchVars == <<memoS, last_search, searched>>
anaVars == <<analysis, writer>>
concVars == <<puts, lastPut>>
pageVars == <<pending_barcode, barcode_param, scan_log, skipped>>
imgVars == <<analysis_data, analysis_results, warnings, trends, shot, parsed_log>>
vars == <<files, now, ticks, envVars, cacheVars, resVars, scanVars, searchVars, anaVars, concVars, pageVars, imgVars>>

\* bounds of the model
StartTime == 1700000000
MaxTicks == 2
MaxRuns == 2
\* the most questions asked in the chat of a session
MaxChat == 1
\* the most products an upstream search response carries
UpstreamMax == 11

Barcodes == {<<"737628064502">>, <<"041196910759">>}
\* the barcode the resolutions are about
Scanned == {<<"737628064502">>}

Clients == {"DataFetcher", "AIAnalyzer", "OpenFoodFactsFetcher"}

\* the logical keys each implementation is called with
Slots(c) ==
    CASE c = "DataFetcher" -> {<<b, "off">> : b \in Barcodes}
      [] c = "AIAnalyzer" -> {<<"health", <<"Kettle", "Chips">>, <<"Kettle">> >>,
                              <<"env", <<"Kettle", "Chips">>, <<"Kettle">> >>}
      [] c = "OpenFoodFactsFetcher" -> {<<b>> : b \in Barcodes}

PathOf(c, slot) ==
    CASE c = "DataFetcher" -> DataFetcherPath(slot[1], slot[2])
      [] c = "AIAnalyzer" -> AIAnalyzerPath(slot[1], slot[2], slot[3])
      [] c = "OpenFoodFactsFetcher" -> ScannerPath(slot[1])

DataKeyOf(c) == IF c = "OpenFoodFactsFetcher" THEN "product" ELSE "data"
TimeKeyOf(c) == IF c = "OpenFoodFactsFetcher" THEN "timestamp" ELSE "cache_time"

TTLOf(c) ==
    CASE c = "DataFetcher" -> ProductTTL
      [] c = "AIAnalyzer" -> AnalysisTTL
      [] c = "OpenFoodFactsFetcher" -> ScannerTTL

Load(c, f, t) ==
    CASE c = "DataFetcher" -> DataFetcherLoad(f, t)
      [] c = "AIAnalyzer" -> AIAnalyzerLoad(f, t)
      [] c = "OpenFoodFactsFetcher" -> ScannerLoad(f, t)

Save(c, f, t, writable, data) ==
    CASE c = "DataFetcher" -> DataFetcherSave(f, t, writable, data)
      [] c = "AIAnalyzer" -> AIAnalyzerSave(f, t, writable, data)
      [] c = "OpenFoodFactsFetcher" -> ScannerSave(f, t, writable, data)

CachePaths == UNION {{PathOf(c, s) : s \in Slots(c)} : c \in Clients}
\* the product names typed into the search by name
SearchQueries == {<<"cheerios">>, <<"kettle", " ", "chips">>}
\* the analysis kinds of AIAnalyzer: the first argument of its _cache_path
AnalysisKinds == {"health", "env", "allergen", "recipes", "cert_organic"}
\* the (pname, bname) pairs analyses are requested for: "Trail_Mix" by "Co"
\* and "Trail" by "Mix_Co"
AnalysisSubjects ==
    {<<(<<"Trail", "_", "Mix">>), (<<"Co">>)>>,
     <<(<<"Trail">>), (<<"Mix", "_", "Co">>)>>}
AnalysisPaths ==
    {AIAnalyzerPath(a, sb[1], sb[2]) : a \in AnalysisKinds, sb \in AnalysisSubjects}
AllPaths ==
    CachePaths \cup {DataFetcherPath(b, "usda") : b \in Barcodes}
               \cup {DataFetcherPath(<<"search_">> \o q, "off") : q \in SearchQueries}
               \cup AnalysisPaths

\* payloads handed to _save_cache: a product response, and the empty values
KettleResponse ==
    Dict("status" :> Num(1) @@
         "product" :> Dict("product_name" :> Str("Kettle Chips") @@
                           "nutriments" :> Dict("sugars_100g" :> Num(2))))
CachePayloads == {KettleResponse, List(<<>>), Str(""), Dict(EmptyMap), None,
                  Str("Error: quota exceeded")}

\* ------------------------------------------------------------------------
\* The cache on its own: put, get, and the passing of time
\* ------------------------------------------------------------------------
NoOp == [kind |-> "none"]
NoRun == [bc |-> <<>>]
NoOutcome == [kind |-> "none"]
NeverFetched == [at |-> -1, product |-> None]
NoMemo == [at |-> -1]
NoScan == [kind |-> "none"]

\* names USDAFetcher.fetch_nutrition is called with
ScanNames == {Str("Kettle Chips"), Str("Cheerios"), Str("Unknown Product")}

\* the session and the in-memory caches of barcodescanner.py at start
ScanIdle ==
    /\ memo = [b \in Barcodes |-> NoMemo]
    /\ memoN = [n \in ScanNames |-> NoMemo]
    /\ session_product = None
    /\ session_history = <<>>
    /\ scan = NoScan

\* no search by name made yet
NoSearch == [kind |-> "none"]
SearchIdle ==
    /\ memoS = [q \in SearchQueries |-> NoMemo]
    /\ last_search = NoSearch
    /\ searched = [q \in SearchQueries |-> [at |-> -1]]

\* no analysis requested yet, no analysis file written yet
NoAnalysis == [kind |-> "none"]
NoWriter == [known |-> FALSE]
AnalysisIdle ==
    /\ analysis = NoAnalysis
    /\ writer = [p \in AnalysisPaths |-> NoWriter]

\* the sessions (script runs of different browser sessions or processes)
\* that share the cache directory
Sessions == {1, 2}
\* no _save_cache in progress, none returned yet
NoPut == [op |-> "none"]
ConcIdle ==
    /\ puts = [s \in Sessions |-> NoPut]
    /\ lastPut = [p \in CachePaths |-> NoPut]

\* no barcode in the query parameter
NoParam == <<>>
\* a fresh session of trial2.py / trial.py: nothing scanned yet
PageIdle ==
    /\ pending_barcode = NoParam
    /\ barcode_param = NoParam
    /\ scan_log = <<>>
    /\ skipped = FALSE

\* no image analysed yet
NoShot == [n |-> 0, resp |-> None, odd |-> 0]
\* FoodLabelAnalyzerApp.initialize_session_state: the defaults of a session
ImageIdle ==
    /\ analysis_data = Dict(EmptyMap)
    /\ analysis_results = None
    /\ warnings = List(<<>>)
    /\ trends = <<>>
    /\ shot = NoShot
    /\ parsed_log = <<>>

InitCache ==
    /\ files = [p \in AllPaths |-> Absent]
    /\ now = StartTime
    /\ ticks = 0
    /\ dirWritable \in BOOLEAN
    /\ client \in Clients
    /\ cacheOp = NoOp
    /\ page = "trial2"
    /\ usdaKey = TRUE
    /\ seeded = [banned |-> FALSE, recalls |-> FALSE]
    /\ pc = "idle"
    /\ run = NoRun
    /\ outcome = NoOutcome
    /\ product_data = None
    /\ chat_history = <<>>
    /\ scan_history = <<>>
    /\ primary = [b \in Barcodes |-> NeverFetched]
    /\ runs = 0
    /\ ScanIdle
    /\ SearchIdle
    /\ AnalysisIdle
    /\ ConcIdle
    /\ PageIdle
    /\ ImageIdle

\* _save_cache(key, payload)
Put(slot, payload) ==
    LET p == PathOf(client, slot) IN
    /\ files' = [files EXCEPT ![p] = Save(client, @, now, dirWritable, payload)]
    /\ cacheOp' = [kind |-> "put", path |-> p, payload |-> payload, at |-> now]
    /\ UNCHANGED <<now, ticks, envVars, client, resVars, scanVars, searchVars, anaVars, concVars, pageVars, imgVars>>

\* a _load_cache that removes the file it finds expired or unreadable
Get_sweeping(slot) ==
    LET p == PathOf(client, slot) IN
    /\ cacheOp' = [kind |-> "get", path |-> p, at |-> now,
                   result |-> Load(client, files[p], now),
                   prev |-> IF cacheOp.kind = "put" THEN cacheOp ELSE NoOp]
    /\ files' = [files EXCEPT ![p] = IF Load(client, @, now) = None THEN Absent ELSE @]
    /\ UNCHANGED <<now, ticks, envVars, client, resVars, scanVars, searchVars, anaVars,
                   concVars, pageVars, imgVars>>

\* _load_cache(key)
Get(slot) ==
    LET p == PathOf(client, slot) IN
    /\ cacheOp' = [kind |-> "get", path |-> p, at |-> now,
                   result |-> Load(client, files[p], now),
                   prev |-> IF cacheOp.kind = "put" THEN cacheOp ELSE NoOp]
    /\ UNCHANGED <<files, now, ticks, envVars, client, resVars, scanVars, searchVars, anaVars, concVars, pageVars, imgVars>>

\* time passes: a second, or a whole validity window
Tick(d) ==
    /\ pc = "idle"
    /\ ticks < MaxTicks
    /\ now' = now + d
    /\ ticks' = ticks + 1
    /\ cacheOp' = NoOp
    /\ UNCHANGED <<files, envVars, client, resVars, scanVars, searchVars, anaVars, concVars, pageVars, imgVars>>

NextCache ==
    \/ \E s \in Slots(client), v \in CachePayloads : Put(s, v)
    \/ \E s \in Slots(client) : Get(s)
    \/ \E d \in {1, TTLOf(client)} : Tick(d)

SpecCache == InitCache /\ [][NextCache]_vars

\* ------------------------------------------------------------------------
\* The cache shared by several sessions: _save_cache is open(p, 'w') followed
\* by the writes json.dump makes through the file object, and another
\* session's _load_cache may run between any two of these steps
\* ------------------------------------------------------------------------
\* payloads saved by the sessions
ConcPayloads == {KettleResponse, List(<<>>)}

\* the number of write calls that carry the document to the file: a product
\* response is larger than the buffer of the file object, an empty list is not
ChunkCount(payload) == IF payload = KettleResponse THEN 2 ELSE 1

\* the text json.dump produces for {data, time}, as the chunks written
Chunks(payload, t) ==
    [i \in 1..ChunkCount(payload) |-> [data |-> payload, at |-> t, part |-> i]]

\* the bytes a write beyond the end of the file leaves in between
Hole == [data |-> None, at |-> 0, part |-> 0]

\* the content of a file, as chunks
BytesOf(f) == IF f = Absent THEN <<>> ELSE f.bytes

\* the file whose content is the chunk sequence bytes: JSON text when the
\* chunks are exactly those of one document, text json.load rejects otherwise
FileOf(c, bytes) ==
    IF Len(bytes) >= 1 /\ bytes = Chunks(bytes[1].data, bytes[1].at)
    THEN [k |-> "text", json |-> TRUE,
          doc |-> JsonDump(Dict(DataKeyOf(c) :> bytes[1].data @@
                                TimeKeyOf(c) :> Num(bytes[1].at))),
          bytes |-> bytes]
    ELSE [k |-> "text", json |-> FALSE, bytes |-> bytes]

\* f.write(chunk) at the offset off of the writing file object
WriteAt(bytes, off, chunk) ==
    [i \in 1..(IF off + 1 > Len(bytes) THEN off + 1 ELSE Len(bytes)) |->
        IF i = off + 1 THEN chunk
        ELSE IF i <= Len(bytes) THEN bytes[i]
        ELSE Hole]

\* _save_cache, first step: open(p, 'w') truncates the file, or raises (and
\* the call returns) when the directory is not writable; the document is
\* built with time.time()
SaveOpen(s, slot, payload) ==
    LET p == PathOf(client, slot) IN
    /\ puts[s] = NoPut
    /\ runs < MaxRuns
    /\ runs' = runs + 1
    /\ cacheOp' = NoOp
    /\ IF dirWritable
       THEN /\ files' = [files EXCEPT ![p] = FileOf(client, <<>>)]
            /\ puts' = [puts EXCEPT ![s] = [op |-> "put", path |-> p, payload |-> payload,
                                            at |-> now, off |-> 0, before |-> files[p]]]
            /\ UNCHANGED lastPut
       ELSE UNCHANGED <<files, puts, lastPut>>
    /\ UNCHANGED <<now, ticks, envVars, client, seeded, pc, run, outcome, sessVars,
                   primary, scanVars, searchVars, anaVars, pageVars, imgVars>>

\* _save_cache, next step: one write of json.dump; after the last one the
\* file is closed and the call returns
SaveWrite(s) ==
    /\ puts[s] # NoPut
    /\ LET w == puts[s]
           chunk == Chunks(w.payload, w.at)[w.off + 1]
       IN /\ files' = [files EXCEPT ![w.path] =
                          FileOf(client, WriteAt(BytesOf(@), w.off, chunk))]
          /\ IF w.off + 1 = ChunkCount(w.payload)
             THEN /\ puts' = [puts EXCEPT ![s] = NoPut]
                  /\ lastPut' = [lastPut EXCEPT ![w.path] =
                                    [op |-> "put", payload |-> w.payload, at |-> w.at]]
             ELSE /\ puts' = [puts EXCEPT ![s].off = w.off + 1]
                  /\ UNCHANGED lastPut
    /\ cacheOp' = NoOp
    /\ UNCHANGED <<now, ticks, envVars, client, resVars, scanVars, searchVars, anaVars,
                   pageVars, imgVars>>

\* the key the sessions contend for
SharedSlot == CHOOSE slot \in Slots(client) : TRUE

InitConc ==
    /\ files = [p \in AllPaths |-> Absent]
    /\ now = StartTime
    /\ ticks = 0
    /\ dirWritable \in BOOLEAN
    /\ client \in {"DataFetcher", "AIAnalyzer"}
    /\ cacheOp = NoOp
    /\ page = "trial2"
    /\ usdaKey = TRUE
    /\ seeded = [banned |-> TRUE, recalls |-> TRUE]
    /\ pc = "idle"
    /\ run = NoRun
    /\ outcome = NoOutcome
    /\ product_data = None
    /\ chat_history = <<>>
    /\ scan_history = <<>>
    /\ primary = [b \in Barcodes |-> NeverFetched]
    /\ runs = 0
    /\ ScanIdle
    /\ SearchIdle
    /\ AnalysisIdle
    /\ ConcIdle
    /\ PageIdle
    /\ ImageIdle

NextConc ==
    \/ \E s \in Sessions, v \in ConcPayloads : SaveOpen(s, SharedSlot, v)
    \/ \E s \in Sessions : SaveWrite(s)
    \/ Get(SharedSlot)
    \/ \E d \in {1, TTLOf(client)} : Tick(d)

SpecConc == InitConc /\ [][NextConc]_vars

\* ------------------------------------------------------------------------
\* Barcode resolution: DataFetcher and process_barcode of trial2.py / trial.py
\* ------------------------------------------------------------------------
OffPath(bc) == DataFetcherPath(bc, "off")
UsdaPath(bc) == DataFetcherPath(bc, "usda")

\* what session.get + raise_for_status + r.json() can produce: an exception
\* (timeout, connection error, non-2xx status, body that is not JSON) or the
\* decoded body
Fail == [t |-> "fail"]

ProductNameOf(bc) == IF bc = <<"737628064502">> THEN "Kettle Chips" ELSE "Cheerios"

\* bodies of https://world.openfoodfacts.org/api/v0/product/{barcode}.json
OffFound(bc) ==
    Dict("status" :> Num(1) @@
         "product" :> Dict("product_name" :> Str(ProductNameOf(bc)) @@
                           "brands" :> Str("Kettle") @@
                           "categories_tags" :> List(<<Str("en:snacks")>>) @@
                           "nutriments" :> Dict("sugars_100g" :> Num(2))))
OffNotFound == Dict("status" :> Num(0))
OffEmptyName ==
    Dict("status" :> Num(1) @@
         "product" :> Dict("product_name" :> Str("") @@ "brands" :> Str("Kettle")))
OffNoName == Dict("status" :> Num(1) @@ "product" :> Dict("brands" :> Str("Kettle")))
OffNullBrand ==
    Dict("status" :> Num(1) @@
         "product" :> Dict("product_name" :> Str("Kettle Chips") @@ "brands" :> None))
OffNoProduct == Dict("status" :> Num(1))
OffNotDict == List(<<>>)
OffBodies(bc) ==
    {OffFound(bc), OffNotFound, OffEmptyName, OffNoName, OffNullBrand, OffNoProduct,
     OffNotDict}

\* bodies of https://api.nal.usda.gov/fdc/v1/foods/search
UsdaFound ==
    Dict("foods" :> List(<<Dict("fdcId" :> Num(1) @@ "description" :> Str("KETTLE CHIPS"))>>))
UsdaNoFoods == Dict("foods" :> List(<<>>))
UsdaSearchBodies == {UsdaFound, UsdaNoFoods}

\* bodies of https://api.nal.usda.gov/fdc/v1/food/{fid}
UsdaDetail == Dict("ingredients" :> Str("POTATOES") @@ "marketCountry" :> Str("United States"))
UsdaDetailNotDict == List(<<>>)
UsdaDetailBodies == {UsdaDetail, UsdaDetailNotDict}

\* (None,) * 7
NoneTuple ==
    [name |-> None, brand |-> None, category |-> None, origin |-> None, details |-> None]

\* DataFetcher._extract_off(data) raises: data.get on a value that is no
\* dict, data["product"] missing, p.get on a product that is no dict
ExtractOffRaises(data) ==
    \/ data.t # "dict"
    \/ /\ PyGet(data, "status", None) = Num(1)
       /\ \/ "product" \notin DOMAIN data.d
          \/ data.d["product"].t # "dict"

\* tag.replace("en:", ""), on the tags of the model
RemoveEn(tag) == IF tag = "en:snacks" THEN "snacks" ELSE tag
\* word.capitalize(), on the words of the model
Capitalize(word) == IF word = "snacks" THEN "Snacks" ELSE word

\* the category computed by _extract_off from categories_tags
OffCategory(p) ==
    IF Truthy(PyGet(p, "categories_tags", None))
    THEN Str(Capitalize(RemoveEn(PyGet(p, "categories_tags", None).items[1].s)))
    ELSE Str("Unknown")

\* DataFetcher._extract_off(data), when it does not raise; of the seven
\* values returned, the name, the brand, the category, the origin and the
\* details that the properties read
ExtractOff(data) ==
    IF PyGet(data, "status", None) # Num(1) THEN NoneTuple
    ELSE LET p == data.d["product"] IN
         [name |-> PyGet(p, "product_name", Str("Unknown Product")),
          brand |-> PyGet(p, "brands", Str("Unknown Brand")),
          category |-> OffCategory(p),
          origin |-> PyGet(p, "countries", Str("Unknown")),
          details |-> Dict("ingredients" :> PyGet(p, "ingredients_text", Str("Not available")) @@
                           "nutriments" :> PyGet(p, "nutriments", Dict(EmptyMap)))]

\* DataFetcher._extract_usda(combined): the whole body is in a try block,
\* every exception gives (None,) * 7
ExtractUsda(combined) ==
    IF combined.t # "dict" THEN NoneTuple
    ELSE LET search == PyGet(combined, "search_result", Dict(EmptyMap))
             detail == PyGet(combined, "detail", Dict(EmptyMap))
         IN IF search.t # "dict" THEN NoneTuple
            ELSE IF ~Truthy(PyGet(search, "foods", None)) THEN NoneTuple
            ELSE IF PyGet(search, "foods", None).t # "list" THEN NoneTuple
            ELSE LET food == PyGet(search, "foods", None).items[1] IN
                 IF food.t # "dict" \/ detail.t # "dict" THEN NoneTuple
                 ELSE [name |-> PyGet(food, "description", Str("Unknown")),
                       brand |-> PyGet(food, "brandOwner", Str("Unknown Brand")),
                       category |-> PyGet(food, "foodCategory", Str("Unknown")),
                       origin |-> PyGet(detail, "marketCountry", Str("Unknown")),
                       details |-> Dict("ingredients" :> PyGet(detail, "ingredients", Str("Not available")) @@
                                        "nutriments" :> Dict(EmptyMap))]

\* a fetch_from_open_food_facts that caches whatever the source answers
OffSaves_always(data) == data.t = "dict"

\* fetch_from_open_food_facts, after self._get returned data: whether the
\* response is written to the cache (data.get("status") == 1) ...
OffSaves(data) == data.t = "dict" /\ PyGet(data, "status", None) = Num(1)
\* ... and what is returned; an exception of data.get or of _extract_off is
\* caught by the method's except clause
OffFromNetwork(data) ==
    IF OffSaves(data) /\ ~ExtractOffRaises(data) THEN ExtractOff(data) ELSE NoneTuple

\* fetch_from_usda, after the search returned: search["foods"][0]["fdcId"]
\* can be read (otherwise (None,) * 7, by "if not search.get('foods')" or by
\* the except clause)
UsdaHasFood(search) ==
    /\ search.t = "dict"
    /\ PyGet(search, "foods", None).t = "list"
    /\ Truthy(PyGet(search, "foods", None))
    /\ PyGet(search, "foods", None).items[1].t = "dict"
    /\ "fdcId" \in DOMAIN PyGet(search, "foods", None).items[1].d

\* DataFetcher._get: for i in range(3) ... if i == 2: raise e
IsLastAttempt_second(i) == i = 1
IsLastAttempt(i) == i = 2
\* a sleep of one second after every failed attempt
Backoff_constant(i) == 1
\* ... time.sleep(1 * (i + 1))
Backoff(i) == 1 * (i + 1)

\* process_barcode: "if not pname:" sends the resolution to fetch_from_usda
NeedsFallback_never(r) == FALSE
NeedsFallback(r) == ~Truthy(r.name)

\* fetch_from_usda of trial2.py starts with "if not USDA_API_KEY: return
\* (None,) * 7"; trial.py has no such test
UsdaDisabled == page = "trial2" /\ ~usdaKey

\* product_obj of process_barcode
ProductObj(r, bc) ==
    Dict("product_name" :> r.name @@ "brand_name" :> r.brand @@
         "category" :> r.category @@ "origin" :> r.origin @@
         "details" :> r.details @@ "barcode" :> Str(bc))

Init ==
    /\ files = [p \in AllPaths |-> Absent]
    /\ now = StartTime
    /\ ticks = 0
    /\ dirWritable \in BOOLEAN
    /\ \E cfg \in {<<"trial2", TRUE>>, <<"trial2", FALSE>>, <<"trial", FALSE>>} :
          page = cfg[1] /\ usdaKey = cfg[2]
    /\ client = "DataFetcher"
    /\ cacheOp = NoOp
    /\ seeded \in {[banned |-> FALSE, recalls |-> FALSE], [banned |-> TRUE, recalls |-> TRUE]}
    /\ pc = "idle"
    /\ run = NoRun
    /\ outcome = NoOutcome
    /\ product_data = None
    /\ chat_history = <<>>
    /\ scan_history = <<>>
    /\ primary = [b \in Barcodes |-> NeverFetched]
    /\ runs = 0
    /\ ScanIdle
    /\ SearchIdle
    /\ AnalysisIdle
    /\ ConcIdle
    /\ PageIdle
    /\ ImageIdle

\* the counters and flags of a finished call, as recorded in outcome
Report(c, kind, via, product) ==
    [kind |-> kind, bc |-> c.bc, via |-> via, product |-> product,
     offCalls |-> c.offCalls, usdaCalls |-> c.usdaCalls, waits |-> c.waits,
     allFailed |-> c.allFailed, offHit |-> c.offHit, usdaHit |-> c.usdaHit,
     offBody |-> c.offBody, offFile |-> c.offFile, usdaFile |-> c.usdaFile,
     session |-> c.session, prior |-> c.prior]

\* an exception leaves process_barcode (and the script run)
Raise(c, fs, t) ==
    /\ files' = fs
    /\ now' = t
    /\ pc' = "idle"
    /\ run' = NoRun
    /\ outcome' = Report(c, "exception", "none", None)
    /\ UNCHANGED <<sessVars, primary>>

\* process_barcode from "if pname:" on: the product becomes the session's
\* product, or "No product found" is shown
Finish(r, via, fs, t, c) ==
    /\ files' = fs
    /\ now' = t
    /\ pc' = "idle"
    /\ run' = NoRun
    /\ IF Truthy(r.name)
       THEN /\ product_data' = ProductObj(r, c.bc)
            /\ chat_history' = <<>>
            /\ scan_history' =
                  IF \E i \in DOMAIN scan_history : scan_history[i] = ProductObj(r, c.bc)
                  THEN scan_history
                  ELSE Append(scan_history, ProductObj(r, c.bc))
            /\ outcome' = Report(c, "product", via, ProductObj(r, c.bc))
            /\ primary' = IF via = "off_net"
                          THEN [primary EXCEPT ![c.bc] = [at |-> t, product |-> ProductObj(r, c.bc)]]
                          ELSE primary
       ELSE /\ outcome' = Report(c, "notfound", via, None)
            /\ UNCHANGED <<sessVars, primary>>

\* fetch_from_usda up to its first request
EnterUsda(fs, t, c) ==
    IF UsdaDisabled THEN Finish(NoneTuple, "none", fs, t, c)
    ELSE LET cached == DataFetcherLoad(fs[UsdaPath(c.bc)], t) IN
         IF Truthy(cached)
         THEN Finish(ExtractUsda(cached), "usda_cache", fs, t, [c EXCEPT !.usdaHit = TRUE])
         ELSE /\ files' = fs
              /\ now' = t
              /\ pc' = "usda_search"
              /\ run' = [c EXCEPT !.i = 0]
              /\ outcome' = NoOutcome
              /\ UNCHANGED <<sessVars, primary>>

\* process_barcode after fetch_from_open_food_facts returned r
AfterOff(r, via, fs, t, c) ==
    IF NeedsFallback(r) THEN EnterUsda(fs, t, c) ELSE Finish(r, via, fs, t, c)

\* RegulationDatabase.initialize_database: each missing reference file is
\* written with open(..., 'w'), outside any try block
SeedRaises == (~seeded.banned \/ ~seeded.recalls) /\ ~dirWritable
Seeded == IF dirWritable THEN [banned |-> TRUE, recalls |-> TRUE] ELSE seeded

\* A script run that resolves barcode bc, typed into the manual search:
\* main() constructs RegulationDatabase, DataFetcher and AIAnalyzer, then
\* process_barcode(bc) calls fetch_from_open_food_facts, which reads the
\* cache first.
StartRun(bc) ==
    /\ pc = "idle"
    /\ runs < MaxRuns
    /\ runs' = runs + 1
    /\ cacheOp' = NoOp
    /\ seeded' = Seeded
    /\ UNCHANGED <<ticks, envVars, client, scanVars, searchVars, anaVars, concVars,
                   imgVars>>
    /\ LET c == [bc |-> bc, i |-> 0, offCalls |-> 0, usdaCalls |-> 0, waits |-> <<>>,
                 allFailed |-> TRUE, offHit |-> FALSE, usdaHit |-> FALSE,
                 offBody |-> None, search |-> None, offFile |-> files[OffPath(bc)],
                 usdaFile |-> files[UsdaPath(bc)],
                 session |-> [product_data |-> product_data, scan_history |-> scan_history],
                 prior |-> IF primary[bc].at >= 0 /\ now - primary[bc].at <= ProductTTL
                           THEN primary[bc].product ELSE None]
           cached == DataFetcherLoad(files[OffPath(bc)], now)
       IN IF SeedRaises THEN Raise(c, files, now)
          ELSE IF Truthy(cached)
          THEN IF ExtractOffRaises(cached)
               THEN Raise([c EXCEPT !.offHit = TRUE], files, now)
               ELSE AfterOff(ExtractOff(cached), "off_cache", files, now,
                             [c EXCEPT !.offHit = TRUE])
          ELSE /\ pc' = "off_get"
               /\ run' = c
               /\ outcome' = NoOutcome
               /\ UNCHANGED <<files, now, sessVars, primary>>

\* a failed attempt inside DataFetcher._get that is not the last one: sleep
\* and try again. The seconds slept are recorded in waits; the clock of the
\* model advances between resolutions (Tick), in steps that matter to the
\* validity windows.
Retry(c) ==
    /\ run' = [c EXCEPT !.i = @ + 1, !.waits = Append(@, Backoff(c.i))]
    /\ UNCHANGED <<files, now, pc, outcome, sessVars, primary>>

\* one attempt of self._get(".../api/v0/product/{barcode}.json") and, when
\* _get returns or gives up, the rest of fetch_from_open_food_facts
OffAttempt(resp) ==
    /\ pc = "off_get"
    /\ UNCHANGED <<ticks, envVars, cacheVars, seeded, runs, scanVars, searchVars, anaVars, concVars, pageVars, imgVars>>
    /\ LET c == [run EXCEPT !.offCalls = @ + 1, !.allFailed = @ /\ resp = Fail] IN
       IF resp = Fail
       THEN IF IsLastAttempt(run.i)
            THEN AfterOff(NoneTuple, "none", files, now, c)
            ELSE Retry(c)
       ELSE LET fs == IF OffSaves(resp)
                      THEN [files EXCEPT ![OffPath(run.bc)] =
                                DataFetcherSave(@, now, dirWritable, resp)]
                      ELSE files
            IN AfterOff(OffFromNetwork(resp), "off_net", fs, now,
                        [c EXCEPT !.offBody = IF OffSaves(resp) THEN resp ELSE None])

\* one attempt of self._get(".../fdc/v1/foods/search") and what follows it
UsdaSearchAttempt(resp) ==
    /\ pc = "usda_search"
    /\ UNCHANGED <<ticks, envVars, cacheVars, seeded, runs, scanVars, searchVars, anaVars, concVars, pageVars, imgVars>>
    /\ LET c == [run EXCEPT !.usdaCalls = @ + 1, !.allFailed = @ /\ resp = Fail] IN
       IF resp = Fail
       THEN IF IsLastAttempt(run.i)
            THEN Finish(NoneTuple, "none", files, now, c)
            ELSE Retry(c)
       ELSE IF UsdaHasFood(resp)
            THEN /\ pc' = "usda_detail"
                 /\ run' = [c EXCEPT !.i = 0, !.search = resp]
                 /\ UNCHANGED <<files, now, outcome, sessVars, primary>>
            ELSE Finish(NoneTuple, "none", files, now, c)

\* one attempt of self._get(".../fdc/v1/food/{fid}") and what follows it:
\* the combined response is cached, then normalized
UsdaDetailAttempt(resp) ==
    /\ pc = "usda_detail"
    /\ UNCHANGED <<ticks, envVars, cacheVars, seeded, runs, scanVars, searchVars, anaVars, concVars, pageVars, imgVars>>
    /\ LET c == [run EXCEPT !.usdaCalls = @ + 1, !.allFailed = @ /\ resp = Fail] IN
       IF resp = Fail
       THEN IF IsLastAttempt(run.i)
            THEN Finish(NoneTuple, "none", files, now, c)
            ELSE Retry(c)
       ELSE LET combined == Dict("search_result" :> run.search @@ "detail" :> resp)
                fs == [files EXCEPT ![UsdaPath(run.bc)] =
                           DataFetcherSave(@, now, dirWritable, combined)]
            IN Finish(ExtractUsda(combined), "usda_net", fs, now, c)

Next ==
    \/ \E bc \in Scanned : StartRun(bc) /\ UNCHANGED pageVars
    \/ \E resp \in {Fail} \cup OffBodies(run.bc) : OffAttempt(resp)
    \/ \E resp \in {Fail} \cup UsdaSearchBodies : UsdaSearchAttempt(resp)
    \/ \E resp \in {Fail} \cup UsdaDetailBodies : UsdaDetailAttempt(resp)
    \/ \E d \in {1, ProductTTL} : Tick(d)

Spec == Init /\ [][Next]_vars

\* ------------------------------------------------------------------------
\* barcodescanner.py: fetch_product, fetch_nutrition and the scan handler
\* ------------------------------------------------------------------------

\* bodies of .../api/v0/product/{barcode}.json seen by fetch_product: the
\* product with no, one or three nutrient keys, with "nutriments": null,
\* without a product_name, and the answer for an unknown barcode
ScanFound(bc, nutriments) ==
    Dict("status" :> Num(1) @@
         "product" :> Dict("product_name" :> Str(ProductNameOf(bc)) @@
                           "brands" :> Str("Kettle") @@
                           "nutriments" :> nutriments))
ScanNoName ==
    Dict("status" :> Num(1) @@
         "product" :> Dict("nutriments" :> Dict("sugars_100g" :> Num(2))))
OneNutrient == Dict("sugars_100g" :> Num(2))
ThreeNutrients ==
    Dict("sugars_100g" :> Num(2) @@ "fat_100g" :> Num(5) @@ "proteins_100g" :> Num(6))
ScanBodies(bc) ==
    {ScanFound(bc, n) : n \in {Dict(EmptyMap), OneNutrient, ThreeNutrients, None}}
    \cup {ScanNoName, OffNotFound, OffNoProduct}

\* one entry of foodNutrients; a nutrient name is the sequence of its parts
Nutrient(name, value, unit) ==
    Dict("nutrientName" :> Str(name) @@ "value" :> Num(value) @@ "unitName" :> Str(unit))
FoodWith(nutrients) ==
    Dict("foods" :> List(<<Dict("description" :> Str("KETTLE CHIPS") @@
                                "foodNutrients" :> List(nutrients))>>))
\* bodies of .../fdc/v1/foods/search seen by fetch_nutrition
NutritionSugars == FoodWith(<<Nutrient(<<"Sugars", ", total">>, 9, "g")>>)
NutritionMany ==
    FoodWith(<<Nutrient(<<"Energy">>, 150, "kcal"),
               Nutrient(<<"Energy">>, 628, "kJ"),
               Nutrient(<<"Protein">>, 7, "g"),
               Nutrient(<<"Sodium", ", Na">>, 400, "mg"),
               Nutrient(<<"Total lipid", " (fat)">>, 8, "g"),
               Nutrient(<<"Fat", "ty acids, total saturated">>, 3, "g"),
               Nutrient(<<"Calcium", ", Ca">>, 20, "mg")>>)
NutritionNoNutrients == Dict("foods" :> List(<<Dict("description" :> Str("KETTLE CHIPS"))>>))
NutritionBodies == {NutritionSugars, NutritionMany, NutritionNoNutrients, UsdaNoFoods}

\* sub in name, for a name given by its parts
Has(name, sub) == \E i \in DOMAIN name : name[i] = sub
\* unit.upper()
Upper(unit) ==
    CASE unit = "kcal" -> "KCAL"
      [] unit = "kJ" -> "KJ"
      [] unit = "g" -> "G"
      [] unit = "mg" -> "MG"
      [] OTHER -> unit

\* the if / elif chain of fetch_nutrition: the key a nutrient is stored
\* under, "" when it is skipped
NutrientKey(name, unit) ==
    IF Has(name, "Energy") /\ Upper(unit) = "KCAL" THEN "energy-kcal_100g"
    ELSE IF Has(name, "Protein") THEN "proteins_100g"
    ELSE IF Has(name, "Carbohydrate") THEN "carbohydrates_100g"
    ELSE IF Has(name, "Total lipid") \/ Has(name, "Fat") THEN "fat_100g"
    ELSE IF Has(name, "Sugars") THEN "sugars_100g"
    ELSE IF Has(name, "Fiber") THEN "fiber_100g"
    ELSE IF Has(name, "Sodium") THEN "salt_100g"
    ELSE ""

\* value / 1000 * 2.5, for the sodium values of the model (multiples of 400 mg)
SaltOfSodium(value) == (value * 25) \div 10000

\* a.update(b) on the mappings of two dicts
Update(a, b) ==
    [k \in DOMAIN a \cup DOMAIN b |-> IF k \in DOMAIN b THEN b[k] ELSE a[k]]

\* the for loop of fetch_nutrition over food.get("foodNutrients", [])
RECURSIVE CollectNutrients(_, _)
CollectNutrients(items, nutrients) ==
    IF items = <<>> THEN nutrients
    ELSE LET name == PyGet(Head(items), "nutrientName", Str(<<>>)).s
             value == PyGet(Head(items), "value", Num(0)).n
             unit == PyGet(Head(items), "unitName", Str("")).s
             key == NutrientKey(name, unit)
             stored == IF key = "salt_100g" THEN SaltOfSodium(value) ELSE value
         IN CollectNutrients(Tail(items),
                             IF key = "" THEN nutrients
                             ELSE Update(nutrients, key :> Num(stored)))

\* USDAFetcher.fetch_nutrition, from the response on: the nutrients of the
\* first food; {} when there is none and when anything raises
NutritionOf(resp) ==
    IF resp = Fail \/ resp.t # "dict" THEN Dict(EmptyMap)
    ELSE LET foods == PyGet(resp, "foods", None) IN
         IF ~Truthy(foods) THEN Dict(EmptyMap)
         ELSE Dict(CollectNutrients(PyGet(foods.items[1], "foodNutrients", List(<<>>)).items,
                                    EmptyMap))

\* the result dict built by fetch_product from data["product"]; of its
\* sixteen keys, those the properties read
ScanResult(bc, p) ==
    Dict("barcode" :> Str(bc) @@
         "name" :> PyGet(p, "product_name", Str("Unknown Product")) @@
         "brand" :> PyGet(p, "brands", Str("Unknown Brand")) @@
         "category" :> PyGet(p, "categories", Str("Unknown")) @@
         "nutrients" :> PyGet(p, "nutriments", Dict(EmptyMap)) @@
         "origin" :> PyGet(p, "countries", Str("Unknown")))

\* the body of fetch_product on the cache file f: the value returned, the
\* file left behind and whether a request was made
FetchProduct(bc, f, t, writable, resp) ==
    LET cached == ScannerLoad(f, t) IN
    IF Truthy(cached) THEN [value |-> cached, file |-> f, called |-> FALSE]
    ELSE IF /\ resp # Fail
            /\ resp.t = "dict"
            /\ PyGet(resp, "status", None) = Num(1)
            /\ "product" \in DOMAIN resp.d
            /\ resp.d["product"].t = "dict"
         THEN [value |-> ScanResult(bc, resp.d["product"]),
               file |-> ScannerSave(f, t, writable, ScanResult(bc, resp.d["product"])),
               called |-> TRUE]
         ELSE [value |-> None, file |-> f, called |-> TRUE]

\* st.cache_data(ttl=86400): an entry younger than the ttl is returned, an
\* older one is recomputed; at an age equal to the ttl either happens,
\* depending on the version of the cache library
MemoHit(m, t, atEdge) ==
    /\ m # NoMemo
    /\ \/ t - m.at < ScannerTTL
       \/ t - m.at = ScannerTTL /\ atEdge

\* len(v) of a dict or a list
LenOf(v) == IF v.t = "dict" THEN Cardinality(DOMAIN v.d) ELSE Len(v.items)

\* the test that sends a product to the enrichment
NeedsNutrients(p) ==
    LET n == PyGet(p, "nutrients", None) IN
    ~Truthy(n) \/ LenOf(PyGet(p, "nutrients", Dict(EmptyMap))) < 3

InitScanner ==
    /\ files = [p \in AllPaths |-> Absent]
    /\ now = StartTime
    /\ ticks = 0
    /\ dirWritable \in BOOLEAN
    /\ page = "barcodescanner"
    /\ usdaKey = TRUE
    /\ client = "OpenFoodFactsFetcher"
    /\ cacheOp = NoOp
    /\ seeded = [banned |-> FALSE, recalls |-> FALSE]
    /\ pc = "idle"
    /\ run = NoRun
    /\ outcome = NoOutcome
    /\ product_data = None
    /\ chat_history = <<>>
    /\ scan_history = <<>>
    /\ primary = [b \in Barcodes |-> NeverFetched]
    /\ runs = 0
    /\ ScanIdle
    /\ SearchIdle
    /\ AnalysisIdle
    /\ ConcIdle
    /\ PageIdle
    /\ ImageIdle

\* A script run of main() with a scanned barcode (or a barcode typed into
\* the manual search): fetch_product, the enrichment by fetch_nutrition,
\* then the product becomes the session's product and enters the history.
ScanBarcode(bc, resp, uresp, atEdge) ==
    /\ runs < MaxRuns
    /\ runs' = runs + 1
    /\ cacheOp' = NoOp
    /\ UNCHANGED <<now, ticks, envVars, client, seeded, pc, run, outcome, sessVars, primary,
                   searchVars, anaVars, concVars, pageVars, imgVars>>
    /\ LET hit == MemoHit(memo[bc], now, atEdge)
           fp == IF hit
                 THEN [value |-> memo[bc].value, file |-> files[ScannerPath(bc)], called |-> FALSE]
                 ELSE FetchProduct(bc, files[ScannerPath(bc)], now, dirWritable, resp)
           p == fp.value
       IN /\ files' = [files EXCEPT ![ScannerPath(bc)] = fp.file]
          /\ memo' = IF hit THEN memo ELSE [memo EXCEPT ![bc] = [at |-> now, value |-> p]]
          /\ IF ~Truthy(p)
             THEN /\ scan' = [kind |-> "notfound", bc |-> bc, offCalled |-> fp.called]
                  /\ UNCHANGED <<memoN, session_product, session_history>>
             ELSE LET name == PyGet(p, "name", Str(""))
                      before == p.d["nutrients"]
                      nhit == NeedsNutrients(p) /\ MemoHit(memoN[name], now, atEdge)
                      usda == IF ~NeedsNutrients(p) THEN Dict(EmptyMap)
                              ELSE IF nhit THEN memoN[name].value
                              ELSE NutritionOf(uresp)
                      merges == NeedsNutrients(p) /\ Truthy(usda)
                      after == IF merges THEN Dict(Update(before.d, usda.d)) ELSE before
                      q == Dict(Update(p.d, "nutrients" :> after))
                  IN /\ memoN' = IF NeedsNutrients(p) /\ ~nhit
                                 THEN [memoN EXCEPT ![name] = [at |-> now, value |-> usda]]
                                 ELSE memoN
                     /\ IF merges /\ before.t # "dict"
                        THEN \* None.update(...) raises AttributeError
                             /\ scan' = [kind |-> "exception", bc |-> bc,
                                         offCalled |-> fp.called]
                             /\ UNCHANGED <<session_product, session_history>>
                        ELSE /\ session_product' = q
                             /\ session_history' =
                                   IF \E i \in DOMAIN session_history : session_history[i] = q
                                   THEN session_history
                                   ELSE <<q>> \o session_history
                             /\ scan' = [kind |-> "product", bc |-> bc,
                                         offCalled |-> fp.called,
                                         enriched |-> merges,
                                         before |-> before, usda |-> usda,
                                         after |-> after]

\* the choice at the edge matters when some memoized entry is exactly ttl old
EdgeChoices ==
    IF \/ \E b \in Barcodes : memo[b] # NoMemo /\ now - memo[b].at = ScannerTTL
       \/ \E n \in ScanNames : memoN[n] # NoMemo /\ now - memoN[n].at = ScannerTTL
    THEN BOOLEAN ELSE {FALSE}

NextScanner ==
    \/ \E bc \in Scanned :
          \E resp \in {Fail} \cup ScanBodies(bc),
             uresp \in {Fail} \cup NutritionBodies, atEdge \in EdgeChoices :
             ScanBarcode(bc, resp, uresp, atEdge)
    \/ \E d \in {1, ScannerTTL} : Tick(d)

SpecScanner == InitScanner /\ [][NextScanner]_vars

\* ------------------------------------------------------------------------
\* Search by name: DataFetcher.search_products_by_name (trial2.py, trial.py)
\* and OpenFoodFactsFetcher.search_by_name (barcodescanner.py)
\* ------------------------------------------------------------------------

\* one summary of the "products" array of .../cgi/search.pl
Summary(i) == Dict("product_name" :> Str("Cheerios") @@ "code" :> Str(ToString(i)))
\* a body with n products: the upstream is asked for page_size 10 and may
\* answer with more
ProductsBody(n) == Dict("products" :> List([i \in 1..n |-> Summary(i)]))
SearchNullProducts == Dict("products" :> None)
SearchBodies ==
    {ProductsBody(n) : n \in {0, 1, UpstreamMax}}
    \cup {SearchNullProducts, Dict(EmptyMap), OffNotDict}

\* what the attempts of one self._get call meet: up to two failures, then a
\* body or a third failure
AttemptSeqs(bodies) ==
    UNION {{<<b>>, <<Fail, b>>, <<Fail, Fail, b>>} : b \in bodies \cup {Fail}}

\* DataFetcher._get as a whole: the loop over range(3), from attempt i on
RECURSIVE GetLoop(_, _)
GetLoop(attempts, i) ==
    IF attempts[i + 1] # Fail
    THEN [raised |-> FALSE, body |-> attempts[i + 1], calls |-> i + 1,
          waits |-> [k \in 1..i |-> Backoff(k - 1)]]
    ELSE IF IsLastAttempt(i) \/ i + 1 = Len(attempts)
         THEN [raised |-> TRUE, body |-> None, calls |-> i + 1,
               waits |-> [k \in 1..i |-> Backoff(k - 1)]]
         ELSE GetLoop(attempts, i + 1)

\* self._cache_path(f"search_{name}", 'off')
SearchPath(name) == DataFetcherPath(<<"search_">> \o name, "off")

\* items[:n]
Slice(items, n) == SubSeq(items, 1, IF Len(items) < n THEN Len(items) ELSE n)

\* DataFetcher.search_products_by_name on the cache file f: the value
\* returned, the file left behind, the requests made and whether _get
\* returned a body
SearchProducts(f, t, writable, attempts) ==
    LET cached == DataFetcherLoad(f, t)
        g == GetLoop(attempts, 0)
        prods == IF Truthy(g.body) THEN PyGet(g.body, "products", List(<<>>))
                 ELSE List(<<>>)
    IN IF Truthy(cached)
       THEN [result |-> cached, file |-> f, calls |-> 0, upstream |-> FALSE]
       ELSE IF g.raised
       THEN [result |-> List(<<>>), file |-> f, calls |-> g.calls, upstream |-> FALSE]
       ELSE IF Truthy(g.body) /\ g.body.t # "dict"
       THEN \* data.get raises AttributeError: except: return []
            [result |-> List(<<>>), file |-> f, calls |-> g.calls, upstream |-> TRUE]
       ELSE [result |-> prods, file |-> DataFetcherSave(f, t, writable, prods),
             calls |-> g.calls, upstream |-> TRUE]

\* the body of OpenFoodFactsFetcher.search_by_name: one request, the first
\* five products; [] when anything raises
SearchByName(resp) ==
    IF resp = Fail \/ resp.t # "dict" THEN List(<<>>)
    ELSE IF PyGet(resp, "products", List(<<>>)).t # "list" THEN List(<<>>)
    ELSE List(Slice(PyGet(resp, "products", List(<<>>)).items, 5))

\* len(result) of a search result, 0 for the None a null "products" gives
Count(result) == IF result.t = "list" THEN Len(result.items) ELSE 0

\* the last body a search of the query received, if it is at most a TTL old
PriorSearch(q) ==
    IF searched[q].at >= 0 /\ now - searched[q].at <= ProductTTL
    THEN [known |-> TRUE, result |-> searched[q].result]
    ELSE [known |-> FALSE]

InitSearch ==
    /\ files = [p \in AllPaths |-> Absent]
    /\ now = StartTime
    /\ ticks = 0
    /\ dirWritable \in BOOLEAN
    /\ page \in {"trial2", "barcodescanner"}
    /\ usdaKey = TRUE
    /\ client = "DataFetcher"
    /\ cacheOp = NoOp
    /\ seeded = [banned |-> TRUE, recalls |-> TRUE]
    /\ pc = "idle"
    /\ run = NoRun
    /\ outcome = NoOutcome
    /\ product_data = None
    /\ chat_history = <<>>
    /\ scan_history = <<>>
    /\ primary = [b \in Barcodes |-> NeverFetched]
    /\ runs = 0
    /\ ScanIdle
    /\ SearchIdle
    /\ AnalysisIdle
    /\ ConcIdle
    /\ PageIdle
    /\ ImageIdle

\* A script run of trial2.py / trial.py with a product name typed into the
\* manual search: search_products_by_name(query); the page lists the first
\* five results.
ManualSearch(q, attempts) ==
    /\ page # "barcodescanner"
    /\ runs < MaxRuns
    /\ runs' = runs + 1
    /\ cacheOp' = NoOp
    /\ LET r == SearchProducts(files[SearchPath(q)], now, dirWritable, attempts) IN
       /\ files' = [files EXCEPT ![SearchPath(q)] = r.file]
       /\ last_search' = [kind |-> "done", query |-> q, result |-> r.result,
                     calls |-> r.calls, prior |-> PriorSearch(q)]
       /\ searched' = IF r.upstream
                      THEN [searched EXCEPT ![q] = [at |-> now, result |-> r.result]]
                      ELSE searched
    /\ UNCHANGED <<now, ticks, envVars, client, seeded, pc, run, outcome, sessVars,
                   primary, scanVars, memoS, anaVars, concVars, pageVars, imgVars>>

\* A script run of barcodescanner.py with a product name typed into the
\* manual search: search_by_name(name), behind st.cache_data.
ScannerSearch(q, resp, atEdge) ==
    /\ page = "barcodescanner"
    /\ runs < MaxRuns
    /\ runs' = runs + 1
    /\ cacheOp' = NoOp
    /\ LET hit == MemoHit(memoS[q], now, atEdge)
           r == IF hit THEN memoS[q].value ELSE SearchByName(resp)
       IN /\ memoS' = IF hit THEN memoS ELSE [memoS EXCEPT ![q] = [at |-> now, value |-> r]]
          /\ last_search' = [kind |-> "done", query |-> q, result |-> r,
                        calls |-> IF hit THEN 0 ELSE 1, prior |-> PriorSearch(q)]
          /\ searched' = IF ~hit /\ resp # Fail
                         THEN [searched EXCEPT ![q] = [at |-> now, result |-> r]]
                         ELSE searched
    /\ UNCHANGED <<files, now, ticks, envVars, client, seeded, pc, run, outcome,
                   sessVars, primary, scanVars, anaVars, concVars, pageVars, imgVars>>

\* the values the barcode query parameter of the scanner tab takes: a
\* product barcode, and the text "search_cheerios" (the parameter is not
\* validated, and a scanned code may encode any text)
ScanParams == Scanned \cup {<<"search_", "cheerios">>}

\* A script run of trial2.py / trial.py with barcode b in the query
\* parameter, when fetch_from_open_food_facts finds a cached value for b that
\* needs no fallback: process_barcode(b) returns _extract_off(cached), or
\* the exception of _extract_off leaves it.
ResolveFromCache(b) ==
    /\ page # "barcodescanner"
    /\ runs < MaxRuns
    /\ runs' = runs + 1
    /\ LET cached == DataFetcherLoad(files[OffPath(b)], now) IN
       /\ Truthy(cached)
       /\ IF ExtractOffRaises(cached) THEN TRUE ELSE ~NeedsFallback(ExtractOff(cached))
       /\ cacheOp' = [kind |-> "lookup", bc |-> b, path |-> OffPath(b), cached |-> cached,
                      raised |-> ExtractOffRaises(cached)]
       /\ IF ExtractOffRaises(cached)
          THEN UNCHANGED sessVars
          ELSE LET product_obj == ProductObj(ExtractOff(cached), b) IN
               /\ product_data' = product_obj
               /\ chat_history' = <<>>
               /\ scan_history' =
                     IF \E i \in DOMAIN scan_history : scan_history[i] = product_obj
                     THEN scan_history
                     ELSE Append(scan_history, product_obj)
    /\ UNCHANGED <<files, now, ticks, envVars, client, seeded, pc, run, outcome, primary,
                   scanVars, searchVars, anaVars, concVars, pageVars, imgVars>>

NextSearch ==
    \/ \E b \in ScanParams : ResolveFromCache(b)
    \/ \E q \in SearchQueries, attempts \in AttemptSeqs(SearchBodies) :
          ManualSearch(q, attempts)
    \/ \E q \in SearchQueries, resp \in {Fail} \cup SearchBodies, atEdge \in BOOLEAN :
          ScannerSearch(q, resp, atEdge)
    \/ \E d \in {1, ProductTTL} : Tick(d)

SpecSearch == InitSearch /\ [][NextSearch]_vars

\* ------------------------------------------------------------------------
\* The generative analyses of AIAnalyzer (trial2.py, trial.py) and the chat
\* helper: a model call, the parsing of its text, and the analysis cache
\* ------------------------------------------------------------------------
\* texts the model returns: a complete answer, the same answer cut off, and
\* an answer without a rating or any figure
FullText ==
    "Rating: 8/10. Calories: 150, sugar: 12, saturated: 1, sodium: 200, protein: 3, fiber: 2, additives: 4"
TruncatedText == "Rating: 8/10. Calories: 150, su"
UnparsableText == "I cannot help with that."
ErrorText == "Error: quota exceeded"

\* what generate_content does: it raises, returns no response object, or
\* returns a response with a text
ModelRaises == [k |-> "raises", msg |-> "quota exceeded"]
ModelNothing == [k |-> "none"]
ModelText(s) == [k |-> "text", text |-> s]
ModelResponses ==
    {ModelRaises, ModelNothing,
     ModelText(FullText), ModelText(TruncatedText), ModelText(UnparsableText)}

\* AIAnalyzer._gen(prompt)
Gen(resp) ==
    CASE resp.k = "raises" -> Str(ErrorText)        \* f"Error: {e}"
      [] resp.k = "none"   -> Str("")               \* r is falsy
      [] resp.k = "text"   -> Str(resp.text)

\* AIAnalyzer._extract_rating(text): the number the rating pattern finds in
\* the text, 5.0 when it finds none
ExtractRating(text) ==
    IF text.s \in {FullText, TruncatedText} THEN Num(8) ELSE Num(5)

\* the keys of the metrics dict, in the order _extract_nutrition_metrics
\* fills them
MetricKeys ==
    <<"calories_per_serving", "sugar_content_g", "saturated_fat_g", "sodium_mg",
      "protein_g", "fiber_g", "additive_count">>
\* the nutriments key a metric falls back to
NutrimentKey(k) ==
    CASE k = "calories_per_serving" -> "energy-kcal_serving"
      [] k = "sugar_content_g"      -> "sugars_100g"
      [] k = "saturated_fat_g"      -> "saturated-fat_100g"
      [] k = "sodium_mg"            -> "sodium_100g"
      [] k = "protein_g"            -> "proteins_100g"
      [] k = "fiber_g"              -> "fiber_100g"

\* the figures the seven patterns find in a text
TextMetrics(s) ==
    [k \in {MetricKeys[i] : i \in DOMAIN MetricKeys} |->
        IF s = FullText
        THEN CASE k = "calories_per_serving" -> Num(150)
               [] k = "sugar_content_g"      -> Num(12)
               [] k = "saturated_fat_g"      -> Num(1)
               [] k = "sodium_mg"            -> Num(200)
               [] k = "protein_g"            -> Num(3)
               [] k = "fiber_g"              -> Num(2)
               [] k = "additive_count"       -> Num(4)
        ELSE IF s = TruncatedText /\ k = "calories_per_serving" THEN Num(150)
        ELSE None]

\* whether "key in v" / v[key] can be evaluated on the value v
Container(v) == v.t \in {"dict", "list", "str"}

\* AIAnalyzer._extract_nutrition_metrics(text, details) of the page pg.
\* trial2.py makes the additives fallback inside the "if details and
\* 'nutriments' in details" block, trial.py makes it after the block.
ExtractNutritionMetrics(text, details, pg) ==
    LET m0 == TextMetrics(text.s)
        six == {MetricKeys[i] : i \in 1..6}
        inBlock == Truthy(details) /\ details.t = "dict"
                   /\ "nutriments" \in DOMAIN details.d
        n == details.d["nutriments"]
        \* "energy-kcal_serving" in n raises TypeError when n is not a container
        blockRaises ==
            /\ inBlock
            /\ \E k \in six : m0[k] = None
            /\ \/ ~Container(n)
               \/ /\ m0["sodium_mg"] = None
                  /\ n.t = "dict" /\ "sodium_100g" \in DOMAIN n.d
                  /\ n.d["sodium_100g"].t \notin {"num", "str", "list"}
        fallback(k) ==
            IF inBlock /\ n.t = "dict" /\ NutrimentKey(k) \in DOMAIN n.d
            THEN IF k = "sodium_mg" /\ n.d[NutrimentKey(k)].t = "num"
                 THEN Num(n.d[NutrimentKey(k)].n * 1000)
                 ELSE n.d[NutrimentKey(k)]
            ELSE None
        additiveTested ==
            /\ m0["additive_count"] = None
            /\ (pg = "trial" \/ inBlock)
        \* "additives_tags" in details raises TypeError when details is None
        additiveRaises ==
            /\ additiveTested
            /\ \/ ~Container(details)
               \/ /\ details.t = "dict" /\ "additives_tags" \in DOMAIN details.d
                  /\ ~Container(details.d["additives_tags"])
        additive ==
            IF additiveTested /\ details.t = "dict"
               /\ "additives_tags" \in DOMAIN details.d
            THEN Num(Len(details.d["additives_tags"].items))
            ELSE m0["additive_count"]
    IN IF blockRaises \/ additiveRaises
       THEN [raised |-> TRUE]
       ELSE [raised |-> FALSE,
             metrics |-> Dict([k \in DOMAIN m0 |->
                                  IF k = "additive_count" THEN additive
                                  ELSE IF m0[k] = None THEN fallback(k)
                                  ELSE m0[k]])]

\* AIAnalyzer._ctx(details) raises when a truthy details is not a dict, or
\* when its truthy nutriments have no items()
CtxRaises(details) ==
    /\ Truthy(details)
    /\ \/ details.t # "dict"
       \/ /\ "nutriments" \in DOMAIN details.d
          /\ Truthy(details.d["nutriments"])
          /\ details.d["nutriments"].t # "dict"

\* how a call of an analysis ends: it returns a value or raises; hit tells
\* that the value came from the cache, calls counts the model calls, file is
\* the cache file afterwards and saved tells that _save_cache wrote it
Returned(value, hit, calls, file, saved) ==
    [raised |-> FALSE, value |-> value, hit |-> hit, calls |-> calls,
     file |-> file, saved |-> saved]
Raised(calls, file) ==
    [raised |-> TRUE, value |-> None, hit |-> FALSE, calls |-> calls,
     file |-> file, saved |-> FALSE]

\* AIAnalyzer.analyze_product_health(pname, bname, cat, details) on the
\* cache file f at time t
AnalyzeProductHealth(f, t, writable, details, resp, pg) ==
    LET cached == AIAnalyzerLoad(f, t) IN
    IF Truthy(cached)
    THEN IF cached.t # "dict" THEN Raised(0, f)       \* cached.get raises
         ELSE Returned(<<PyGet(cached, "analysis", Str("")),
                         PyGet(cached, "rating", Num(0)),
                         PyGet(cached, "metrics", Dict(EmptyMap))>>, TRUE, 0, f, FALSE)
    ELSE IF CtxRaises(details) THEN Raised(0, f)
    ELSE LET text == Gen(resp)
             rating == ExtractRating(text)
             m == ExtractNutritionMetrics(text, details, pg)
         IN IF m.raised THEN Raised(1, f)
            ELSE Returned(<<text, rating, m.metrics>>, FALSE, 1,
                          AIAnalyzerSave(f, t, writable,
                              Dict("analysis" :> text @@ "rating" :> rating @@
                                   "metrics" :> m.metrics)),
                          writable)

\* AIAnalyzer.analyze_environmental_impact(pname, bname, details)
AnalyzeEnvironmentalImpact(f, t, writable, details, resp) ==
    LET cached == AIAnalyzerLoad(f, t) IN
    IF Truthy(cached)
    THEN IF cached.t # "dict" THEN Raised(0, f)       \* cached.get raises
         ELSE Returned(<<PyGet(cached, "analysis", Str("")),
                         PyGet(cached, "rating", Num(0))>>, TRUE, 0, f, FALSE)
    ELSE IF details.t # "dict" THEN Raised(0, f)      \* details.get raises
    ELSE LET text == Gen(resp)
             rating == ExtractRating(text)
         IN Returned(<<text, rating>>, FALSE, 1,
                     AIAnalyzerSave(f, t, writable,
                         Dict("analysis" :> text @@ "rating" :> rating)),
                     writable)

\* analyze_allergen_risks, generate_healthier_recipes and check_certification:
\* the cached value is the text itself
AnalyzeText(f, t, writable, resp) ==
    LET cached == AIAnalyzerLoad(f, t) IN
    IF Truthy(cached)
    THEN Returned(cached, TRUE, 0, f, FALSE)
    ELSE LET text == Gen(resp)
         IN Returned(text, FALSE, 1, AIAnalyzerSave(f, t, writable, text), writable)

\* product details handed to the analyses: none, the details of a product
\* of Open Food Facts, and details whose nutriments are null
DetailsFull ==
    Dict("ingredients" :> Str("potatoes, oil, salt") @@
         "nutriments" :> Dict("sugars_100g" :> Num(2) @@ "sodium_100g" :> Num(1)) @@
         "additives_tags" :> List(<<Str("en:e330")>>))
DetailsNullNutriments ==
    Dict("ingredients" :> Str("potatoes, oil, salt") @@
         "nutriments" :> None @@
         "additives_tags" :> List(<<>>))
AnalysisDetails == {None, DetailsFull, DetailsNullNutriments}

\* the analyses that read the details; the others are not handed any
DetailsRead(atype) ==
    IF atype \in {"health", "env"} THEN AnalysisDetails ELSE {None}

\* the analysis of kind atype for (pname, second); second is the brand
\* name, and the category for the recipes
RunAnalysis(atype, f, t, writable, details, resp, pg) ==
    CASE atype = "health" -> AnalyzeProductHealth(f, t, writable, details, resp, pg)
      [] atype = "env"    -> AnalyzeEnvironmentalImpact(f, t, writable, details, resp)
      [] OTHER            -> AnalyzeText(f, t, writable, resp)

\* get_gemini_response(question, product_name, product_context): the
\* messages of the exceptions the chat helper tells apart
ChatErrors == {"quota exceeded", "blocked by safety filters", "invalid api_key",
               "connection reset"}
ChatResponses ==
    {[k |-> "raises", msg |-> e] : e \in ChatErrors}
        \cup {ModelNothing, ModelText(""), ModelText(UnparsableText)}
GetGeminiResponse(resp) ==
    CASE resp.k = "raises" ->
           (CASE resp.msg = "quota exceeded" -> Str("API rate limit reached")
              [] resp.msg = "blocked by safety filters" -> Str("blocked by content safety filters")
              [] resp.msg = "invalid api_key" -> Str("Invalid API key")
              [] OTHER -> Str("Error getting response"))
      [] resp.k = "none" -> Str("I wasn't able to generate a response")
      [] resp.k = "text" -> IF resp.text = ""
                            THEN Str("I wasn't able to generate a response")
                            ELSE Str(resp.text)

\* the product shown while the analyses run
ShownProduct ==
    LET bc == CHOOSE b \in Scanned : TRUE IN ProductObj(ExtractOff(OffFound(bc)), bc)

InitAnalysis ==
    /\ files = [p \in AllPaths |-> Absent]
    /\ now = StartTime
    /\ ticks = 0
    /\ dirWritable \in BOOLEAN
    /\ page \in {"trial2", "trial"}
    /\ usdaKey = TRUE
    /\ client = "AIAnalyzer"
    /\ cacheOp = NoOp
    /\ seeded = [banned |-> TRUE, recalls |-> TRUE]
    /\ pc = "idle"
    /\ run = NoRun
    /\ outcome = NoOutcome
    /\ product_data = ShownProduct
    /\ chat_history = <<>>
    /\ scan_history = <<ShownProduct>>
    /\ primary = [b \in Barcodes |-> NeverFetched]
    /\ runs = 0
    /\ ScanIdle
    /\ SearchIdle
    /\ AnalysisIdle
    /\ ConcIdle
    /\ PageIdle
    /\ ImageIdle

\* One analysis of AIAnalyzer, as called by a tab of
\* display_product_information
Analyze(atype, pname, second, details, resp) ==
    /\ runs < MaxRuns
    /\ runs' = runs + 1
    /\ cacheOp' = NoOp
    /\ LET p == AIAnalyzerPath(atype, pname, second)
           r == RunAnalysis(atype, files[p], now, dirWritable, details, resp, page)
       IN /\ files' = [files EXCEPT ![p] = r.file]
          /\ analysis' = [kind |-> IF r.raised THEN "raised" ELSE "returned",
                          atype |-> atype, pname |-> pname, bname |-> second,
                          details |-> details, resp |-> resp,
                          hit |-> r.hit, calls |-> r.calls, value |-> r.value,
                          from |-> writer[p]]
          /\ writer' = IF r.saved
                       THEN [writer EXCEPT ![p] = [known |-> TRUE, atype |-> atype,
                                                   pname |-> pname, bname |-> second]]
                       ELSE writer
    /\ UNCHANGED <<now, ticks, envVars, client, seeded, pc, run, outcome, sessVars,
                   primary, scanVars, searchVars, concVars, pageVars, imgVars>>

\* A question typed into the chat of the product page: get_gemini_response,
\* then the exchange is appended to the chat history (about notes the
\* product the question was asked about)
Ask(question, resp) ==
    /\ Truthy(product_data)
    /\ Len(chat_history) < MaxChat
    /\ cacheOp' = NoOp
    /\ LET answer == GetGeminiResponse(resp) IN
       /\ chat_history' = Append(chat_history, [user |-> question, ai |-> answer,
                                                    about |-> product_data])
       /\ analysis' = [kind |-> "returned", atype |-> "chat", pname |-> <<>>,
                       bname |-> <<>>, details |-> None, resp |-> resp,
                       hit |-> FALSE, calls |-> 1, value |-> answer,
                       from |-> NoWriter]
    /\ UNCHANGED <<files, now, ticks, envVars, client, seeded, pc, run, outcome,
                   product_data, scan_history, primary, scanVars, searchVars, writer,
                   concVars, pageVars, imgVars>>

NextAnalysis ==
    \/ \E atype \in AnalysisKinds, sb \in AnalysisSubjects, resp \in ModelResponses :
          \E details \in DetailsRead(atype) : Analyze(atype, sb[1], sb[2], details, resp)
    \/ \E resp \in ChatResponses :
          runs < MaxRuns /\ runs' = runs + 1 /\ Ask("Is it vegan?", resp)
    \/ \E d \in {1, AnalysisTTL} : Tick(d)

SpecAnalysis == InitAnalysis /\ [][NextAnalysis]_vars

\* ------------------------------------------------------------------------
\* A session of trial2.py / trial.py: the barcode the scanner component puts
\* in the query parameter, the manual entry, the scan history and the chat
\* ------------------------------------------------------------------------
\* a guard that lets every script run process the barcode of the parameter
PendingGuard_always(param, pending) == param # NoParam

\* main: "if barcode_from_scan and
\* st.session_state.get('pending_barcode') != barcode_from_scan"
PendingGuard(param, pending) == param # NoParam /\ pending # param

\* the scanner component detects barcode b and writes it to the query
\* parameter of the page
Scan(b) ==
    /\ pc = "idle"
    /\ barcode_param' = b
    /\ cacheOp' = NoOp
    /\ UNCHANGED <<files, now, ticks, envVars, client, resVars, scanVars, searchVars,
                   anaVars, concVars, pending_barcode, scan_log, skipped, imgVars>>

\* A script run of main() with the barcode of the query parameter: it is
\* handed to process_barcode when the guard lets it through, and left alone
\* otherwise
ScanRerun ==
    /\ pc = "idle"
    /\ barcode_param # NoParam
    /\ IF PendingGuard(barcode_param, pending_barcode)
       THEN /\ pending_barcode' = barcode_param
            /\ scan_log' = Append(scan_log, barcode_param)
            /\ StartRun(barcode_param)
            /\ UNCHANGED <<barcode_param, skipped>>
       ELSE /\ skipped' = TRUE
            /\ cacheOp' = NoOp
            /\ UNCHANGED <<files, now, ticks, envVars, client, resVars, scanVars,
                           searchVars, anaVars, concVars, pending_barcode,
                           barcode_param, scan_log, imgVars>>

\* a "View" that keeps the chat of the product shown before
View_keepchat(i) ==
    /\ pc = "idle"
    /\ product_data' = scan_history[i]
    /\ cacheOp' = NoOp
    /\ UNCHANGED <<files, now, ticks, envVars, client, seeded, pc, run, outcome,
                   chat_history, scan_history, primary, runs, scanVars, searchVars,
                   anaVars, concVars, pageVars, imgVars>>

\* the "View" button of item i of the scan history in the sidebar
View(i) ==
    /\ pc = "idle"
    /\ product_data' = scan_history[i]
    /\ chat_history' = <<>>
    /\ cacheOp' = NoOp
    /\ UNCHANGED <<files, now, ticks, envVars, client, seeded, pc, run, outcome,
                   scan_history, primary, runs, scanVars, searchVars, anaVars,
                   concVars, pageVars, imgVars>>

InitSession ==
    /\ files = [p \in AllPaths |-> Absent]
    /\ now = StartTime
    /\ ticks = 0
    /\ dirWritable \in BOOLEAN
    /\ page \in {"trial2", "trial"}
    /\ usdaKey = FALSE
    /\ client = "DataFetcher"
    /\ cacheOp = NoOp
    /\ seeded = [banned |-> TRUE, recalls |-> TRUE]
    /\ pc = "idle"
    /\ run = NoRun
    /\ outcome = NoOutcome
    /\ product_data = None
    /\ chat_history = <<>>
    /\ scan_history = <<>>
    /\ primary = [b \in Barcodes |-> NeverFetched]
    /\ runs = 0
    /\ ScanIdle
    /\ SearchIdle
    /\ AnalysisIdle
    /\ ConcIdle
    /\ PageIdle
    /\ ImageIdle

NextSession ==
    \/ \E b \in Barcodes : Scan(b)
    \/ ScanRerun
    \/ \E bc \in Barcodes : StartRun(bc) /\ UNCHANGED pageVars
    \/ \E resp \in {Fail, OffFound(run.bc), OffNotFound} : OffAttempt(resp)
    \/ \E resp \in {Fail, UsdaNoFoods} : UsdaSearchAttempt(resp)
    \/ \E i \in DOMAIN scan_history : View(i)
    \/ \E resp \in {ModelNothing, ModelText(UnparsableText)} :
          pc = "idle" /\ Ask("Is it vegan?", resp) /\ UNCHANGED runs

SpecSession == InitSession /\ [][NextSession]_vars

\* ------------------------------------------------------------------------
\* finalanalyzerbot.py: the analysis of an uploaded food image
\* ------------------------------------------------------------------------
\* the number of items the trends list keeps
TrendsKept == 20

\* analyses as the prompt asks for them: a drink with a warning, a fruit
\* with none, and a snack whose nutrition the model could not read
SodaData ==
    Dict("name" :> Str("Cola") @@
         "nutrition" :> Dict("calories" :> Str("150 kcal")) @@
         "processingLevel" :> Str("Ultra-Processed") @@
         "warnings" :> List(<<Str("High in sugar")>>))
AppleData ==
    Dict("name" :> Str("Apple") @@
         "nutrition" :> Dict("calories" :> Str("52 kcal")) @@
         "processingLevel" :> Str("Unprocessed") @@
         "warnings" :> List(<<>>))
VagueData ==
    Dict("name" :> Str("Snack bar") @@
         "nutrition" :> None @@
         "processingLevel" :> Str("Processed"))

\* response.text: a JSON document (or none at all), inside a ```json block
\* or not, with or without prose around it
NoDoc == [j |-> "nothing"]
Reply(doc, fenced, prose) == [k |-> "text", doc |-> doc, fenced |-> fenced, prose |-> prose]
Fenced(data) == Reply(JsonDump(data), TRUE, TRUE)
Bare(data) == Reply(JsonDump(data), FALSE, FALSE)
Wrapped(data) == Reply(JsonDump(data), FALSE, TRUE)
Refusal == Reply(NoDoc, FALSE, TRUE)

\* the response every analysis but a few gets
UsualReply == Fenced(SodaData)
OddReplies ==
    {ModelRaises, ModelNothing, Fenced(AppleData), Bare(AppleData), Wrapped(AppleData),
     Wrapped(List(<<Str("Apple")>>)), Fenced(VagueData), Refusal}
\* the most analyses of a session, and the most of them that get an odd reply
MaxImages == 22
MaxOdd == 2

\* The parsing of analyze_food_image: the ```json block if there is one,
\* else the whole text, is handed to json.loads; when that fails the text
\* from the first "{" to the last "}" is tried
ParseFails(text) ==
    \/ text.doc = NoDoc
    \/ ~text.fenced /\ text.prose /\ text.doc.j # "object"
ParseReply(text) == JsonLoad(text.doc)

\* re.search(r'(\d+\.?\d*)', str(value_str)) in _extract_numeric_value
ExtractNumericValue(v) ==
    CASE v.t = "num" -> v.n
      [] v.t = "str" -> (CASE v.s = "150 kcal" -> 150
                           [] v.s = "52 kcal" -> 52
                           [] v.s = "0" -> 0
                           [] OTHER -> 0)
      [] OTHER -> 0

\* building trend_item raises AttributeError: .get is called on
\* analysis_data and on its "nutrition", "fats" and "healthImpact" members
TrendRaises(data) ==
    IF data.t # "dict" THEN TRUE
    ELSE LET nutrition == PyGet(data, "nutrition", Dict(EmptyMap)) IN
         IF nutrition.t # "dict" THEN TRUE
         ELSE \/ PyGet(nutrition, "fats", Dict(EmptyMap)).t # "dict"
              \/ PyGet(data, "healthImpact", Dict(EmptyMap)).t # "dict"

TrendItem(data, n) ==
    [timestamp |-> n,
     food |-> PyGet(data, "name", Str("Unknown")),
     calories |-> ExtractNumericValue(
                      PyGet(PyGet(data, "nutrition", Dict(EmptyMap)), "calories", Str("0"))),
     processing_level |-> PyGet(data, "processingLevel", Str("Unknown"))]

LastOf(items, n) ==
    IF Len(items) > n THEN SubSeq(items, Len(items) - n + 1, Len(items)) ELSE items

\* FoodLabelAnalyzerApp._add_to_trends: the list after the call (an
\* exception is logged and swallowed)
AddToTrends(list, data, n) ==
    IF ~Truthy(data) THEN list
    ELSE IF TrendRaises(data) THEN list
    ELSE LastOf(Append(list, TrendItem(data, n)), TrendsKept)

\* '"warnings" in analysis_data' raises TypeError
WarningsTestRaises(data) == data.t \in {"none", "num"}

\* 'if "warnings" in analysis_data and analysis_data["warnings"]'
HasWarnings(data) ==
    /\ data.t = "dict"
    /\ "warnings" \in DOMAIN data.d
    /\ Truthy(data.d["warnings"])

\* FoodLabelAnalyzerApp.analyze_food_image, called by the "Analyze Food"
\* button of render_analysis_section
AnalyzeFoodImage(resp) ==
    /\ shot.n < MaxImages
    /\ resp # UsualReply => shot.odd < MaxOdd
    /\ shot' = [n |-> shot.n + 1, resp |-> resp,
                odd |-> shot.odd + (IF resp = UsualReply THEN 0 ELSE 1)]
    /\ IF resp.k # "text"
       THEN UNCHANGED <<analysis_data, analysis_results, warnings, trends, parsed_log>>
       ELSE IF ParseFails(resp)
       THEN /\ analysis_results' = resp
            /\ UNCHANGED <<analysis_data, warnings, trends, parsed_log>>
       ELSE LET data == ParseReply(resp) IN
            /\ analysis_data' = data
            /\ analysis_results' = resp
            /\ trends' = AddToTrends(trends, data, shot.n + 1)
            /\ parsed_log' = Append(parsed_log, shot.n + 1)
            /\ warnings' = IF ~WarningsTestRaises(data) /\ HasWarnings(data)
                           THEN data.d["warnings"]
                           ELSE warnings
    /\ UNCHANGED <<files, now, ticks, envVars, cacheVars, resVars, scanVars, searchVars,
                   anaVars, concVars, pageVars>>

InitImage ==
    /\ files = [p \in AllPaths |-> Absent]
    /\ now = StartTime
    /\ ticks = 0
    /\ dirWritable = TRUE
    /\ page = "finalanalyzerbot"
    /\ usdaKey = FALSE
    /\ client = "AIAnalyzer"
    /\ cacheOp = NoOp
    /\ seeded = [banned |-> TRUE, recalls |-> TRUE]
    /\ pc = "idle"
    /\ run = NoRun
    /\ outcome = NoOutcome
    /\ product_data = None
    /\ chat_history = <<>>
    /\ scan_history = <<>>
    /\ primary = [b \in Barcodes |-> NeverFetched]
    /\ runs = 0
    /\ ScanIdle
    /\ SearchIdle
    /\ AnalysisIdle
    /\ ConcIdle
    /\ PageIdle
    /\ ImageIdle

NextImage == \E resp \in {UsualReply} \cup OddReplies : AnalyzeFoodImage(resp)

SpecImage == InitImage /\ [][NextImage]_vars

\* ========================================================================
\* Properties
\* ========================================================================

\* the entry a cache file holds, as _save_cache wrote it
IsEntry(c, f) ==
    /\ f.k = "text"
    /\ f.json
    /\ JsonLoad(f.doc).t = "dict"
    /\ DOMAIN JsonLoad(f.doc).d = {DataKeyOf(c), TimeKeyOf(c)}
    /\ JsonLoad(f.doc).d[TimeKeyOf(c)].t = "num"
StoredAt(c, f) == JsonLoad(f.doc).d[TimeKeyOf(c)].n
PayloadOf(c, f) == JsonLoad(f.doc).d[DataKeyOf(c)]

\* C1: with the cache directory writable, a get made immediately after a
\* put to the same namespace and key returns a payload equal to the one put,
\* for every payload, the empty list, string and mapping included.
C1_PutThenGet ==
    (/\ cacheOp.kind = "get"
     /\ cacheOp.prev.kind = "put"
     /\ cacheOp.prev.path = cacheOp.path
     /\ cacheOp.prev.at = cacheOp.at
     /\ dirWritable)
    => cacheOp.result = cacheOp.prev.payload

C1_Witness ==
    /\ cacheOp.kind = "get"
    /\ cacheOp.prev.kind = "put"
    /\ cacheOp.prev.path = cacheOp.path
    /\ cacheOp.prev.at = cacheOp.at
    /\ dirWritable
    /\ client = "DataFetcher"
    /\ cacheOp.prev.payload = List(<<>>)
    /\ cacheOp.result = List(<<>>)

\* C2: a get of an entry whose age now - stored_at exceeds the TTL of its
\* namespace returns absent (None), whatever the payload.
C2_ExpiredIsAbsent ==
    (/\ cacheOp.kind = "get"
     /\ IsEntry(client, files[cacheOp.path])
     /\ cacheOp.at - StoredAt(client, files[cacheOp.path]) > TTLOf(client))
    => cacheOp.result = None

C2_Witness ==
    /\ cacheOp.kind = "get"
    /\ IsEntry(client, files[cacheOp.path])
    /\ cacheOp.at - StoredAt(client, files[cacheOp.path]) = TTLOf(client) + 1
    /\ PayloadOf(client, files[cacheOp.path]) = KettleResponse
    /\ cacheOp.result = None

\* C3: in every cache implementation a get of an intact entry whose age is
\* at most the TTL, an age equal to the TTL included, returns its payload.
C3_ValidUpToTTL ==
    (/\ cacheOp.kind = "get"
     /\ IsEntry(client, files[cacheOp.path])
     /\ cacheOp.at - StoredAt(client, files[cacheOp.path]) <= TTLOf(client))
    => cacheOp.result = PayloadOf(client, files[cacheOp.path])

\* a process_barcode call has ended
Finished == outcome.kind \in {"product", "notfound", "exception"}

\* C4: with the cache directory writable, once a barcode has been fetched
\* successfully from Open Food Facts, a resolution of the same barcode that
\* starts within the 24h window of that fetch makes no network call and
\* returns the same record, read from the cache.
C4_RepeatWithinTTL ==
    (/\ Finished
     /\ outcome.prior # None
     /\ dirWritable)
    => /\ outcome.kind = "product"
       /\ outcome.via = "off_cache"
       /\ outcome.offCalls = 0
       /\ outcome.usdaCalls = 0
       /\ outcome.product = outcome.prior

C4_Witness ==
    /\ Finished
    /\ outcome.prior # None
    /\ dirWritable
    /\ outcome.via = "off_cache"
    /\ outcome.offCalls = 0
    /\ outcome.product = ProductObj(ExtractOff(OffFound(outcome.bc)), outcome.bc)
    /\ now - primary[outcome.bc].at = ProductTTL

\* C5 as stated: NotFound is never reported unless a request was made to
\* the secondary source (USDA) in that resolution.
C5_SecondaryQueried ==
    outcome.kind = "notfound" => outcome.usdaCalls >= 1

\* C5 as amended: unless the secondary source is disabled (trial2.py with
\* no USDA_API_KEY), NotFound is reported only after the secondary source
\* was consulted in that resolution: by a request, or through the fresh
\* cache entry of an earlier secondary response for the barcode.
C5_SecondaryConsulted ==
    (outcome.kind = "notfound" /\ ~UsdaDisabled)
    => (outcome.usdaCalls >= 1 \/ outcome.usdaHit)

C5_Witness ==
    /\ outcome.kind = "notfound"
    /\ ~UsdaDisabled
    /\ outcome.offCalls = 3
    /\ outcome.usdaCalls >= 1
    /\ ~outcome.usdaHit

\* a resolution that found no fresh cache entry and whose every request
\* failed
AllRequestsFailed ==
    /\ Finished
    /\ outcome.offCalls >= 1
    /\ ~outcome.usdaHit
    /\ outcome.allFailed

\* C6 as stated: when every request fails, the resolution makes exactly 3
\* attempts against each source, reports NotFound and raises nothing.
C6_ThreePerSource ==
    AllRequestsFailed
    => /\ outcome.offCalls = 3
       /\ outcome.usdaCalls = 3
       /\ outcome.kind = "notfound"

\* C6 as amended: the same, unless the secondary source is disabled
\* (trial2.py with no USDA_API_KEY).
C6_ThreePerEnabledSource ==
    (AllRequestsFailed /\ ~UsdaDisabled)
    => /\ outcome.offCalls = 3
       /\ outcome.usdaCalls = 3
       /\ outcome.kind = "notfound"

C6_Witness ==
    /\ AllRequestsFailed
    /\ ~UsdaDisabled
    /\ outcome.offCalls = 3
    /\ outcome.usdaCalls = 3
    /\ outcome.waits = <<1, 2, 1, 2>>
    /\ outcome.kind = "notfound"

\* a cache file that exists but is not an entry holding a product response
BadOffFile(f) ==
    /\ f # Absent
    /\ ~(/\ IsEntry("DataFetcher", f)
         /\ PayloadOf("DataFetcher", f).t = "dict"
         /\ PyGet(PayloadOf("DataFetcher", f), "status", None) = Num(1)
         /\ PyGet(PayloadOf("DataFetcher", f), "product", None).t = "dict")

\* C8: whatever the cache file of the barcode holds, the resolution behaves
\* as on a cache miss: it queries Open Food Facts and no exception leaves
\* process_barcode.
C8_BadCacheIsMiss ==
    (Finished /\ BadOffFile(outcome.offFile))
    => (outcome.kind # "exception" /\ outcome.offCalls >= 1)

\* C9: with the cache directory not writable, constructing the objects of
\* main() and running a resolution raise nothing.
C9_UnwritableNotFatal ==
    (Finished /\ ~dirWritable) => outcome.kind # "exception"

\* C10: when Open Food Facts answers status 1, the resolution returns the
\* record normalized from that response, without a request to USDA and
\* without NotFound, whatever the product's fields hold.
C10_PrimaryFoundIsReturned ==
    (Finished /\ outcome.offBody # None /\ "product" \in DOMAIN outcome.offBody.d)
    => /\ outcome.kind = "product"
       /\ outcome.via = "off_net"
       /\ outcome.usdaCalls = 0
       /\ outcome.product = ProductObj(ExtractOff(outcome.offBody), outcome.bc)

\* C7: when a product with fewer than 3 nutrient keys is enriched, every
\* nutrient key it had before the merge has the same value after the merge.
C7_MergeOnlyAdds ==
    (scan.kind = "product" /\ scan.enriched)
    => \A k \in DOMAIN scan.before.d :
          k \in DOMAIN scan.after.d /\ scan.after.d[k] = scan.before.d[k]

\* C11: a resolution that finds a fresh cache entry for the barcode, of
\* either source, makes no network request.
C11_FreshEntryNoRequest ==
    (Finished /\ (outcome.offHit \/ outcome.usdaHit))
    => (outcome.offCalls = 0 /\ outcome.usdaCalls = 0)

\* a resolution in which the primary source was asked and no source
\* reported an item: Open Food Facts failed or answered without status 1,
\* USDA was disabled, failed, or answered without a food it could detail
NoItemReported ==
    /\ Finished
    /\ outcome.offCalls >= 1
    /\ (outcome.offBody = None \/ PyGet(outcome.offBody, "status", None) # Num(1))
    /\ ~outcome.usdaHit
    /\ outcome.via # "usda_net"

SentinelFields == {"product_name", "brand_name", "category", "origin"}

\* C13: the record of every successful resolution holds a string (the
\* source's value or the sentinel) under name, brand, category and origin.
C13_FieldsAreStrings ==
    outcome.kind = "product"
    => \A k \in SentinelFields :
          k \in DOMAIN outcome.product.d /\ outcome.product.d[k].t = "str"

\* C14: a search by name returns at most 10 summaries, whatever the
\* upstream answered and whether or not the result came from the cache.
C14_AtMostTen ==
    last_search.kind = "done" => Count(last_search.result) <= 10

\* C15: with the cache directory writable, a search by name of trial2.py
\* repeated within the TTL of a search that received an upstream response
\* makes no request and returns the same result, the empty list included.
C15_RepeatSearchFromCache ==
    (/\ last_search.kind = "done"
     /\ page = "trial2"
     /\ dirWritable
     /\ last_search.prior.known)
    => /\ last_search.calls = 0
       /\ last_search.result = last_search.prior.result

\* C16: an analysis request reads or overwrites only a cache entry that was
\* written for the same (analysis kind, product name, brand name): whenever
\* the entry it addresses has been written before, it was written by a
\* request with the same three components.
C16_EntryPerTriple ==
    (analysis.kind # "none" /\ analysis.from.known)
    => /\ analysis.from.atype = analysis.atype
       /\ analysis.from.pname = analysis.pname
       /\ analysis.from.bname = analysis.bname

\* C17: no analysis of AIAnalyzer and no call of the chat helper raises,
\* whether generate_content raises, returns nothing, or returns a truncated
\* or an unparsable text.
C17_NeverRaises == analysis.kind # "raised"

\* C18: the record of every successful resolution has a "source" field that
\* names the provider the record came from: "off" when Open Food Facts
\* supplied it (from the network or from its cache entry), "usda" when USDA
\* did.
C18_SourceNamesProvider ==
    outcome.kind = "product"
    => /\ "source" \in DOMAIN outcome.product.d
       /\ outcome.product.d["source"] =
             Str(IF outcome.via \in {"off_net", "off_cache"} THEN "off" ELSE "usda")

\* C19: with the cache directory writable, once a scan has merged USDA
\* nutrients into the product of a barcode, the cache file of that barcode
\* and the memoized fetch_product result both hold the merged nutrients, so
\* that a later cache hit returns them.
C19_MergedWrittenBack ==
    (scan.kind = "product" /\ scan.enriched /\ dirWritable)
    => LET f == files[ScannerPath(scan.bc)] IN
       /\ IsEntry("OpenFoodFactsFetcher", f)
       /\ PayloadOf("OpenFoodFactsFetcher", f).d["nutrients"] = scan.after
       /\ memo[scan.bc].value.d["nutrients"] = scan.after

\* C20 as stated: when every attempt of a source call fails, the failed
\* attempts are followed by waits of 1, 2 and 3 seconds before the source is
\* given up.
C20_WaitsOneTwoThree ==
    AllRequestsFailed
    => /\ Len(outcome.waits) >= 3
       /\ SubSeq(outcome.waits, 1, 3) = <<1, 2, 3>>

\* C20 as amended: the first failed attempt of a source call is followed by
\* a wait of 1 second and the second by a wait of 2 seconds; the third
\* failure gives the source up at once, without a wait. A resolution whose
\* every request fails therefore waits 1 and 2 seconds per source asked.
C20_WaitsOneTwo ==
    AllRequestsFailed
    => outcome.waits = IF UsdaDisabled THEN <<1, 2>> ELSE <<1, 2, 1, 2>>

C20_Witness ==
    /\ AllRequestsFailed
    /\ UsdaDisabled
    /\ outcome.offCalls = 3
    /\ outcome.usdaCalls = 0
    /\ outcome.waits = <<1, 2>>

\* C21: a get changes no file: for every key, the content of the cache
\* directory after a _load_cache call is what it was before, also when the
\* call finds the entry expired or its text unreadable.
C21_GetWritesNothing == [][cacheOp'.kind = "get" => files' = files]_vars

\* a get has just found an entry older than the TTL and returned absent
C21_Witness ==
    /\ cacheOp.kind = "get"
    /\ IsEntry(client, files[cacheOp.path])
    /\ cacheOp.at - StoredAt(client, files[cacheOp.path]) > TTLOf(client)
    /\ cacheOp.result = None
    /\ \A s \in Sessions : puts[s] = NoPut
    /\ lastPut[cacheOp.path] # NoPut

\* a put is in progress on the file the last get read, and the file held a
\* fresh intact entry when that put began
GetOverlapsPut ==
    /\ cacheOp.kind = "get"
    /\ \E s \in Sessions :
          /\ puts[s] # NoPut
          /\ puts[s].path = cacheOp.path
          /\ IsEntry(client, puts[s].before)
          /\ cacheOp.at - StoredAt(client, puts[s].before) <= TTLOf(client)

\* C22: a get that overlaps a put on the same key, where a fresh entry
\* existed before the put, returns a complete payload (the one before or
\* the one after the put), never absent.
C22_GetSeesWholeEntry == GetOverlapsPut => cacheOp.result \in ConcPayloads

\* C23: with the cache directory writable, once every put to a key has
\* returned, a get within the TTL of the put that returned last gives the
\* complete payload of that put.
C23_LastWriterWins ==
    (dirWritable /\ \A s \in Sessions : puts[s] = NoPut)
    => \A p \in CachePaths :
          (lastPut[p] # NoPut /\ now - lastPut[p].at < TTLOf(client))
          => Load(client, files[p], now) = lastPut[p].payload

\* C24: a resolution in progress has made at most 3 attempts in its current
\* source call, and every resolution that has ended did so in success or
\* NotFound after at most 3 attempts per source call (one call of Open Food
\* Facts; the search and the detail call of USDA).
C24_BoundedThenAnswer ==
    /\ pc # "idle" => (run.i <= 2 /\ run.offCalls <= 3 /\ run.usdaCalls <= 6)
    /\ Finished => /\ outcome.kind \in {"product", "notfound"}
                   /\ outcome.offCalls <= 3
                   /\ outcome.usdaCalls <= 6

\* C25: an analysis whose model call raised leaves no cache entry holding
\* the error text, and no later request is answered from the cache with the
\* error text of an earlier failed call.
C25_FailureNotPersisted ==
    (analysis.kind = "returned" /\ analysis.atype # "chat")
    => LET f == files[AIAnalyzerPath(analysis.atype, analysis.pname, analysis.bname)]
           structured == analysis.atype \in {"health", "env"}
           stored == IF structured
                     THEN PyGet(PayloadOf("AIAnalyzer", f), "analysis", None)
                     ELSE PayloadOf("AIAnalyzer", f)
           given == IF structured THEN analysis.value[1] ELSE analysis.value
       IN /\ (analysis.resp = ModelRaises /\ ~analysis.hit /\ IsEntry("AIAnalyzer", f))
             => stored # Str(ErrorText)
          /\ analysis.hit => given # Str(ErrorText)

\* C26: the cache file a product lookup reads is the file of no search
\* query, and the value it finds there is never a list of search results.
C26_ProductKeyIsNoSearchKey ==
    cacheOp.kind = "lookup"
    => /\ \A q \in SearchQueries : cacheOp.path # SearchPath(q)
       /\ cacheOp.cached.t # "list"

\* C27: the scanner tab never hands the same barcode to process_barcode
\* twice in a row: while a barcode stays in the query parameter it is
\* processed by the first script run only, and it is processed again only
\* after a different scanned barcode has been processed.
C27_ProcessedOncePerScan ==
    \A i \in 1..(Len(scan_log) - 1) : scan_log[i] # scan_log[i + 1]

\* a scanned barcode was resolved, and a later script run found the same
\* barcode in the query parameter and left it alone
C27_Witness ==
    /\ Len(scan_log) = 1
    /\ skipped
    /\ barcode_param = scan_log[1]
    /\ pending_barcode = barcode_param
    /\ pc = "idle"
    /\ outcome.kind = "product"

\* C28: every exchange of the chat history was made about the product the
\* session shows: a step that changes product_data leaves the chat history
\* empty, and a resolution that ends in NotFound changes neither of them.
C28_ChatAboutShownProduct ==
    [][/\ \A i \in DOMAIN chat_history' : chat_history'[i].about = product_data'
       /\ product_data' # product_data => chat_history' = <<>>
       /\ (pc # "idle" /\ pc' = "idle" /\ outcome'.kind = "notfound")
             => UNCHANGED <<product_data, chat_history>>]_vars

\* a question was answered about one product, then the other product of the
\* scan history was brought back with "View", and the chat history is empty
C28_Witness ==
    /\ analysis.kind = "returned"
    /\ analysis.atype = "chat"
    /\ chat_history = <<>>
    /\ Len(scan_history) = 2
    /\ product_data = scan_history[1]
    /\ pc = "idle"

\* C29: after any sequence of image analyses the trends list holds at most
\* 20 items, and they are the most recent analyses whose response was
\* parsed, in the order they were made.
C29_TrendsAreLastParsed ==
    /\ Len(trends) <= TrendsKept
    /\ [i \in DOMAIN trends |-> trends[i].timestamp] = LastOf(parsed_log, TrendsKept)

\* C30: after an analysis that got a response of the model, analysis_results,
\* analysis_data and warnings describe that analysis: none of them keeps the
\* value of an earlier image.
C30_StateDescribesLatest ==
    (shot.n > 0 /\ shot.resp.k = "text") =>
        /\ analysis_results = shot.resp
        /\ analysis_data = (IF ParseFails(shot.resp) THEN Dict(EmptyMap)
                            ELSE ParseReply(shot.resp))
        /\ warnings = (IF ParseFails(shot.resp) THEN List(<<>>)
                       ELSE PyGet(ParseReply(shot.resp), "warnings", List(<<>>)))

====
